---- MODULE Spec2Model ----
(***************************************************************************)
(* Schedule_Analyzer front end: the WBS hierarchy builders and rollup      *)
(* calculators of ActivitiesPage, EnhancedActivitiesPage and GanttChart,   *)
(* the fetch / debounce / expand-collapse state of the mounted views, and  *)
(* the navigation, forms, upload and schedule deletion of App.             *)
(*                                                                         *)
(* Conventions.                                                            *)
(*  - A nullable string field holds NULL for JS null/undefined.            *)
(*  - A nullable number field holds <<>> for null/undefined and <<n>> for  *)
(*    the number n.                                                        *)
(*  - Date.getTime() is counted in days since the epoch, not milliseconds. *)
(*    The bar layout alone counts it in hours (GetTimeHours).              *)
(*  - A fraction p/q that the code keeps as a float is the record          *)
(*    [num |-> p, den |-> q] with q > 0.                                   *)
(***************************************************************************)
EXTENDS Integers, Sequences, FiniteSets, TLC

VARIABLES
    mode,             \* which specification drives the state: "build", "loaded", "order",
                      \* "rollup", "view", "app" or "bar"
    \* App
    currentView,      \* useState<'projects' | 'schedules' | 'activities' | 'gantt'>
    selectedProject,  \* the id of useState<Project | null>, 0 for null
    selectedSchedule, \* the id of useState<Schedule | null>, 0 for null
    schedules,        \* useState<Schedule[]>, as the set of the listed ids
    loadingSchedules, \* useState(false)
    schedFetches,     \* fetchSchedules requests awaiting their response, per project id
    \* App, the forms of the projects and the schedules page
    newProject,       \* the name of useState({ name: '', description: '' })
    creatingProject,  \* useState(false)
    newSchedule,      \* the name of useState({ name: '', description: '' })
    creatingSchedule, \* useState(false)
    selectedFile,     \* useState<File | null>, <<>> for null
    uploadScheduleName, \* useState('')
    uploading,        \* useState(false)
    uploadProgress,   \* useState(0)
    intervals,        \* the progress intervals of uploadXerFile that are running, by call number
    calls,            \* POST and DELETE requests awaiting their response
    nextCall,         \* the number the next such request gets
    lastAlert,        \* the message of the window.alert of the last step, NULL when it raised none
    \* the mounted view
    view,             \* the component: "ActivitiesPage", "EnhancedActivitiesPage", "GanttChart", or "none"
    inst,             \* the number of the mounted component instance (its closures)
    loading,          \* useState(true)
    error,            \* useState<string | null>
    searchTerm,       \* EnhancedActivitiesPage: useState('')
    statusFilter,     \* EnhancedActivitiesPage: useState('all')
    timer,            \* EnhancedActivitiesPage: the pending setTimeout of the debounce effect, <<>> for none
    inflight,         \* activity requests awaiting their response
    nextReq,          \* the number the next activity request gets
    activities,       \* useState<Activity[]>
    wbsStructure,     \* useState<WBSItem[]>
    projectInfo,      \* ActivitiesPage: useState<ProjectInfo | null>, <<>> for null
    projectSummary,   \* EnhancedActivitiesPage: useState<ProjectSummary | null>, <<>> for null
    expanded,         \* useState<Set<string>>: expandedNodes / expandedWBS
    hierarchy,        \* the memoised builder output: [ok, nodes]
    \* history of the mounted instance
    issued,           \* how many activity requests it has started
    applied,          \* the number of the request whose response it applied last, 0 for none
    \* the rollup calculators
    site,             \* the call site that ran last
    stats             \* what that call site returned

projectFormVars == <<newProject, creatingProject>>
scheduleFormVars == <<newSchedule, creatingSchedule>>
uploadVars == <<selectedFile, uploadScheduleName, uploading, uploadProgress, intervals>>
callVars == <<calls, nextCall>>
formVars == <<projectFormVars, scheduleFormVars, uploadVars, callVars>>
navVars == <<currentView, selectedProject, selectedSchedule, schedules, loadingSchedules,
             schedFetches>>
appVars == <<navVars, formVars, lastAlert>>
fetchVars == <<inst, loading, error, searchTerm, statusFilter, timer, inflight, nextReq,
               issued, applied>>
dataVars == <<activities, wbsStructure, projectInfo, projectSummary>>
treeVars == <<expanded, hierarchy>>
rollupVars == <<site, stats>>
vars == <<mode, appVars, view, fetchVars, dataVars, treeVars, rollupVars>>

-----------------------------------------------------------------------------
(* Bounds of the model.                                                    *)

MaxWBS == 2
MaxActs == 2
MaxRollupActs == 2
MaxMounts == 2
MaxRequests == 3
MaxSchedFetches == 2

-----------------------------------------------------------------------------
(* JavaScript values.                                                      *)

NULL == "null"

Falsy(s) == s = NULL \/ s = ""

OrZero(n) == IF n = <<>> THEN 0 ELSE n[1]

ProjectRoot == "project-root"

UnassignedKey == "unassigned"

\* String.prototype.localeCompare on the strings the model uses: their rank
\* in alphabetical order.
LocaleRank(s) ==
    CASE s = "A10" -> 1
      [] s = "A20" -> 2
      [] s = "Build" -> 3
      [] s = "Commission" -> 4
      [] s = "Design" -> 5
      [] s = "Site" -> 6
      [] s = "T1" -> 7
      [] s = "T2" -> 8
      [] s = "T3" -> 9
      [] s = "W1" -> 10
      [] s = "W2" -> 11
      [] s = "W3" -> 12
      [] OTHER -> 0

LocaleCompare(a, b) == LocaleRank(a) - LocaleRank(b)

\* The date strings of the model and new Date(s).getTime(), in days.
DateStrings == {"2024-01-01", "2024-01-05", "2024-01-10"}

GetTime(s) ==
    CASE s = "2024-01-01" -> 19723
      [] s = "2024-01-05" -> 19727
      [] s = "2024-01-10" -> 19732

\* Date.prototype.toISOString of the instant t.
ToISOString(t) ==
    CASE t = 19723 -> "2024-01-01T00:00:00.000Z"
      [] t = 19727 -> "2024-01-05T00:00:00.000Z"
      [] t = 19732 -> "2024-01-10T00:00:00.000Z"

\* The instant an ISO string or a date string names (new Date(s).getTime()).
ParseTime(s) ==
    CASE s = "2024-01-01T00:00:00.000Z" -> 19723
      [] s = "2024-01-05T00:00:00.000Z" -> 19727
      [] s = "2024-01-10T00:00:00.000Z" -> 19732
      [] OTHER -> GetTime(s)

SetMin(S) == CHOOSE x \in S : \A y \in S : x <= y

SetMax(S) == CHOOSE x \in S : \A y \in S : x >= y

Range(s) == {s[i] : i \in 1..Len(s)}

RECURSIVE SumSeq(_)
SumSeq(s) == IF s = <<>> THEN 0 ELSE s[1] + SumSeq(Tail(s))

RECURSIVE Flatten(_)
Flatten(ss) == IF ss = <<>> THEN <<>> ELSE ss[1] \o Flatten(Tail(ss))

\* Math.round of the fraction f: the nearest integer, halves towards +infinity.
MathRound(f) == (2 * f.num + f.den) \div (2 * f.den)

-----------------------------------------------------------------------------
(* Rollup calculators.                                                     *)

HasBothDates(a) == ~Falsy(a.early_start_date) /\ ~Falsy(a.early_end_date)

StartTimes(acts) == {GetTime(acts[i].early_start_date) : i \in 1..Len(acts)}

EndTimes(acts) == {GetTime(acts[i].early_end_date) : i \in 1..Len(acts)}

Durations(acts) == [i \in 1..Len(acts) |-> OrZero(acts[i].duration_days)]

Progresses(acts) == [i \in 1..Len(acts) |-> OrZero(acts[i].progress_pct)]

WeightedProgresses(acts) ==
    [i \in 1..Len(acts) |-> OrZero(acts[i].progress_pct) * OrZero(acts[i].duration_days)]

Floats(acts) == {OrZero(acts[i].total_float_days) : i \in 1..Len(acts)}

\* A variant of calculateWBSStats that counts an empty set as complete.
calculateWBSStatsEmptyComplete(allDescendantActivities) ==
    IF Len(allDescendantActivities) = 0
    THEN [totalDuration |-> 0, avgProgress |-> [num |-> 100, den |-> 1],
          progress_pct |-> 100, minFloat |-> 0, startDate |-> NULL, endDate |-> NULL]
    ELSE [totalDuration |-> SumSeq(Durations(allDescendantActivities)),
          avgProgress |-> [num |-> SumSeq(Progresses(allDescendantActivities)),
                           den |-> Len(allDescendantActivities)],
          progress_pct |-> 0, minFloat |-> 0, startDate |-> NULL, endDate |-> NULL]

\* ActivitiesPage.calculateWBSStats
calculateWBSStats(allDescendantActivities) ==
    IF Len(allDescendantActivities) = 0
    THEN [totalDuration |-> 0, avgProgress |-> [num |-> 0, den |-> 1],
          progress_pct |-> 0, minFloat |-> 0, startDate |-> NULL, endDate |-> NULL]
    ELSE LET validActivities == SelectSeq(allDescendantActivities, HasBothDates)
             avgProgress == [num |-> SumSeq(Progresses(allDescendantActivities)),
                             den |-> Len(allDescendantActivities)]
         IN [totalDuration |-> SumSeq(Durations(allDescendantActivities)),
             avgProgress |-> avgProgress,
             progress_pct |-> MathRound(avgProgress),
             minFloat |-> SetMin(Floats(allDescendantActivities)),
             startDate |-> IF Len(validActivities) > 0
                           THEN ToISOString(SetMin(StartTimes(validActivities))) ELSE NULL,
             endDate |-> IF Len(validActivities) > 0
                         THEN ToISOString(SetMax(EndTimes(validActivities))) ELSE NULL]

\* EnhancedActivitiesPage.calculateWBSRollups
calculateWBSRollups(descendantActivities) ==
    IF Len(descendantActivities) = 0
    THEN [totalDuration |-> 0, avgProgress |-> [num |-> 0, den |-> 1],
          progress_pct |-> 0, minFloat |-> 0, startDate |-> NULL, endDate |-> NULL]
    ELSE LET validActivities == SelectSeq(descendantActivities, HasBothDates)
             totalDuration == SumSeq(Durations(descendantActivities))
             avgProgress == IF totalDuration > 0
                            THEN [num |-> SumSeq(WeightedProgresses(descendantActivities)),
                                  den |-> totalDuration]
                            ELSE [num |-> 0, den |-> 1]
         IN [totalDuration |-> totalDuration,
             avgProgress |-> avgProgress,
             progress_pct |-> MathRound(avgProgress),
             minFloat |-> SetMin(Floats(descendantActivities)),
             startDate |-> IF Len(validActivities) > 0
                           THEN ToISOString(SetMin(StartTimes(validActivities))) ELSE NULL,
             endDate |-> IF Len(validActivities) > 0
                         THEN ToISOString(SetMax(EndTimes(validActivities))) ELSE NULL]

\* EnhancedActivitiesPage.calculateEnhancedProjectSummary, its rollup fields;
\* the summary has no float field.
calculateEnhancedProjectSummary(acts) ==
    IF Len(acts) = 0
    THEN [totalDuration |-> 0, avgProgress |-> [num |-> 0, den |-> 1],
          progress_pct |-> 0, startDate |-> NULL, endDate |-> NULL]
    ELSE LET validActivities == SelectSeq(acts, HasBothDates)
             total_duration == SumSeq(Durations(acts))
             overall_progress == IF total_duration > 0
                                 THEN [num |-> SumSeq(WeightedProgresses(acts)),
                                       den |-> total_duration]
                                 ELSE [num |-> 0, den |-> 1]
         IN [totalDuration |-> total_duration,
             avgProgress |-> overall_progress,
             progress_pct |-> MathRound(overall_progress),
             startDate |-> IF Len(validActivities) > 0
                           THEN ToISOString(SetMin(StartTimes(validActivities))) ELSE NULL,
             endDate |-> IF Len(validActivities) > 0
                         THEN ToISOString(SetMax(EndTimes(validActivities))) ELSE NULL]

\* GanttChart.buildWBSNodes, the WBS summary of one node: duration and
\* progress are computed only inside the branch that found an activity with
\* both dates; float is the literal 0 of the node.
ganttWBSSummary(wbsActivities) ==
    LET validActivities == SelectSeq(wbsActivities, HasBothDates)
        dated == Len(wbsActivities) > 0 /\ Len(validActivities) > 0
        totalDuration == IF dated THEN SumSeq(Durations(wbsActivities)) ELSE 0
        weightedProgress == IF dated /\ totalDuration > 0
                            THEN [num |-> SumSeq(WeightedProgresses(wbsActivities)),
                                  den |-> totalDuration]
                            ELSE [num |-> 0, den |-> 1]
    IN [totalDuration |-> totalDuration,
        avgProgress |-> weightedProgress,
        progress_pct |-> MathRound(weightedProgress),
        minFloat |-> 0,
        startDate |-> IF dated THEN <<SetMin(StartTimes(validActivities))>> ELSE <<>>,
        endDate |-> IF dated THEN <<SetMax(EndTimes(validActivities))>> ELSE <<>>]

-----------------------------------------------------------------------------
(* Array.prototype.sort: stable, by the comparator of each call site.      *)

\* ActivitiesPage.buildWBSTree: childrenWBS.sort by wbs_name
CompareWbsName(a, b) == LocaleCompare(a.wbs_name, b.wbs_name)

\* EnhancedActivitiesPage.buildWBSNodes: sort_order, then wbs_code || wbs_name
CompareWbsOrder(a, b) ==
    LET bySort == OrZero(a.sort_order) - OrZero(b.sort_order)
        keyA == IF Falsy(a.wbs_code) THEN a.wbs_name ELSE a.wbs_code
        keyB == IF Falsy(b.wbs_code) THEN b.wbs_name ELSE b.wbs_code
    IN IF bySort # 0 THEN bySort ELSE LocaleCompare(keyA, keyB)

\* ActivitiesPage.buildWBSTree: directActivities.sort
CompareActivityAP(a, b) ==
    IF /\ ~Falsy(a.early_start_date) /\ ~Falsy(b.early_start_date)
       /\ GetTime(a.early_start_date) # GetTime(b.early_start_date)
    THEN GetTime(a.early_start_date) - GetTime(b.early_start_date)
    ELSE LocaleCompare(a.task_id, b.task_id)

\* GanttChart.buildWBSNodes: wbsActivities.sort
CompareActivityGantt(a, b) ==
    LET dateA == IF ~Falsy(a.early_start_date) THEN GetTime(a.early_start_date) ELSE 0
        dateB == IF ~Falsy(b.early_start_date) THEN GetTime(b.early_start_date) ELSE 0
    IN dateA - dateB

\* EnhancedActivitiesPage.buildWBSNodes: wbsActivities.sort
CompareActivityEnhanced(a, b) ==
    IF /\ ~Falsy(a.activity_code) /\ ~Falsy(b.activity_code)
       /\ LocaleCompare(a.activity_code, b.activity_code) # 0
    THEN LocaleCompare(a.activity_code, b.activity_code)
    ELSE CompareActivityGantt(a, b)

Compare(kind, a, b) ==
    CASE kind = "wbs_name" -> CompareWbsName(a, b)
      [] kind = "wbs_order" -> CompareWbsOrder(a, b)
      [] kind = "activity_ap" -> CompareActivityAP(a, b)
      [] kind = "activity_enhanced" -> CompareActivityEnhanced(a, b)
      [] kind = "activity_gantt" -> CompareActivityGantt(a, b)

\* x put into the sorted sequence s behind every element that does not
\* compare greater than it.
RECURSIVE InsertSorted(_,_,_)
InsertSorted(kind, s, x) ==
    IF s = <<>> THEN <<x>>
    ELSE IF Compare(kind, s[Len(s)], x) > 0
         THEN Append(InsertSorted(kind, SubSeq(s, 1, Len(s) - 1), x), s[Len(s)])
         ELSE Append(s, x)

RECURSIVE ArraySort(_,_)
ArraySort(kind, s) ==
    IF Len(s) <= 1 THEN s
    ELSE InsertSorted(kind, ArraySort(kind, SubSeq(s, 1, Len(s) - 1)), s[Len(s)])

-----------------------------------------------------------------------------
(* Hierarchy builders.  A builder input is the record                      *)
(* c = [activities, wbsStructure, projectInfo, projectSummary, expanded];  *)
(* projectInfo and projectSummary are <<>> for null.  A builder gives      *)
(* [ok |-> TRUE, nodes |-> the output array], or [ok |-> FALSE] when its   *)
(* recursion never returns (RangeError: Maximum call stack size exceeded,  *)
(* thrown out of the useMemo).  A recursion that is deeper than the number *)
(* of WBS items has an item twice on its path and so never returns.        *)

Failed == [ok |-> FALSE, nodes |-> <<>>]

Built(nodes) == [ok |-> TRUE, nodes |-> nodes]

AllOk(results) == \A i \in 1..Len(results) : results[i].ok

NodesOf(results) == Flatten([i \in 1..Len(results) |-> results[i].nodes])

\* activitiesByWBS.get(key) || [] of ActivitiesPage: grouped by wbs_id || 'unassigned'
ActivitiesByKey(acts, key) ==
    SelectSeq(acts, LAMBDA a : (IF Falsy(a.wbs_id) THEN UnassignedKey ELSE a.wbs_id) = key)

\* activitiesByWBS.get(wbsId) || [] of EnhancedActivitiesPage and GanttChart: grouped by wbs_id
ActivitiesByWbsId(acts, wbsId) ==
    SelectSeq(acts, LAMBDA a : a.wbs_id = wbsId)

ChildWBS(wbs, wbsId) == SelectSeq(wbs, LAMBDA w : w.parent_wbs_id = wbsId)

\* ActivitiesPage.getAllDescendantActivities; gives [ok, nodes] with the activities as nodes
\* The activities of the child WBS items alone: a descendant collection that
\* leaves out the activities assigned to the item itself.
childActivitiesOnly(c, wbsId, depth) ==
    LET childWBS == ChildWBS(c.wbsStructure, wbsId)
    IN Built(Flatten([i \in 1..Len(childWBS) |->
                         ActivitiesByKey(c.activities, childWBS[i].wbs_id)]))

RECURSIVE getAllDescendantActivities(_,_,_)
getAllDescendantActivities(c, wbsId, depth) ==
    IF depth > Len(c.wbsStructure) THEN Failed
    ELSE LET directActivities == ActivitiesByKey(c.activities, wbsId)
             childWBS == ChildWBS(c.wbsStructure, wbsId)
             childActivities == [i \in 1..Len(childWBS) |->
                 getAllDescendantActivities(c, childWBS[i].wbs_id, depth + 1)]
         IN IF AllOk(childActivities)
            THEN Built(directActivities \o NodesOf(childActivities))
            ELSE Failed

\* EnhancedActivitiesPage.getAllDescendantActivities
RECURSIVE getAllDescendantActivitiesEnhanced(_,_,_)
getAllDescendantActivitiesEnhanced(c, wbsId, depth) ==
    IF depth > Len(c.wbsStructure) THEN Failed
    ELSE LET directActivities == ActivitiesByWbsId(c.activities, wbsId)
             childWBS == ChildWBS(c.wbsStructure, wbsId)
             childActivities == [i \in 1..Len(childWBS) |->
                 getAllDescendantActivitiesEnhanced(c, childWBS[i].wbs_id, depth + 1)]
         IN IF AllOk(childActivities)
            THEN Built(directActivities \o NodesOf(childActivities))
            ELSE Failed

\* An output node.  count is the node's child counter (children / activityCount);
\* duration, progress and float are <<n>> or <<>> when the node carries none.
Node(id, type, level, isExpanded, count, wbsId, taskId, duration, progress, float, start, end) ==
    [id |-> id, type |-> type, level |-> level, isExpanded |-> isExpanded,
     hasChildren |-> type # "activity",
     count |-> count, wbs_id |-> wbsId, task_id |-> taskId,
     duration |-> duration, progress |-> progress, float |-> float,
     start |-> start, end |-> end]

\* ActivitiesPage: the activity rows pushed under a WBS node
ActivityNodeAP(a, level) ==
    Node(a.task_id, "activity", level, FALSE, 0, a.wbs_id, a.task_id,
         a.duration_days, a.progress_pct, a.total_float_days,
         a.early_start_date, a.early_end_date)

\* ActivitiesPage.buildWBSTree, root-level test
IsRootAP(c, w) ==
    \/ Falsy(w.parent_wbs_id)
    \/ w.parent_wbs_id = c.projectInfo[1].project_id
    \/ w.parent_wbs_id = c.projectInfo[1].schedule_id

\* ActivitiesPage.buildWBSTree; parentWbsId = NULL is the root level
RECURSIVE buildWBSTree(_,_,_,_)
buildWBSTree(c, parentWbsId, level, depth) ==
    IF depth > Len(c.wbsStructure) THEN Failed
    ELSE
    LET childrenWBS == ArraySort("wbs_name",
            SelectSeq(c.wbsStructure, LAMBDA w :
                IF parentWbsId = NULL THEN IsRootAP(c, w)
                ELSE w.parent_wbs_id = parentWbsId))
        One(wbs) ==
            LET allDescendantActivities == getAllDescendantActivities(c, wbs.wbs_id, 1)
                directActivities == ActivitiesByKey(c.activities, wbs.wbs_id)
                st == calculateWBSStats(allDescendantActivities.nodes)
                isExpanded == wbs.wbs_id \in c.expanded
                wbsNode == Node("wbs-" \o wbs.wbs_id, "wbs", level, isExpanded,
                                Len(directActivities), wbs.wbs_id, NULL,
                                <<st.totalDuration>>, <<st.progress_pct>>, <<st.minFloat>>,
                                st.startDate, st.endDate)
                sorted == ArraySort("activity_ap", directActivities)
                rows == IF isExpanded /\ Len(directActivities) > 0
                        THEN [i \in 1..Len(sorted) |-> ActivityNodeAP(sorted[i], level + 1)]
                        ELSE <<>>
                below == buildWBSTree(c, wbs.wbs_id, level + 1, depth + 1)
            IN IF allDescendantActivities.ok /\ below.ok
               THEN Built(<<wbsNode>> \o rows \o below.nodes)
               ELSE Failed
        each == [i \in 1..Len(childrenWBS) |-> One(childrenWBS[i])]
    IN IF AllOk(each) THEN Built(NodesOf(each)) ELSE Failed

\* ActivitiesPage: the synthetic node of the activities grouped under 'unassigned'
unassignedNodes(c) ==
    LET unassignedActivities == ActivitiesByKey(c.activities, UnassignedKey)
        isExpanded == UnassignedKey \in c.expanded
        unassignedNode == Node("wbs-unassigned", "wbs", 1, isExpanded,
                               Len(unassignedActivities), UnassignedKey, NULL,
                               <<>>, <<>>, <<>>, NULL, NULL)
    IN IF Len(unassignedActivities) > 0
       THEN <<unassignedNode>> \o
            (IF isExpanded
             THEN [i \in 1..Len(unassignedActivities) |->
                      ActivityNodeAP(unassignedActivities[i], 2)]
             ELSE <<>>)
       ELSE <<>>

\* ActivitiesPage: the hierarchy useMemo
hierarchyAP(c) ==
    IF c.projectInfo = <<>> THEN Built(<<>>)
    ELSE LET isExpanded == ProjectRoot \in c.expanded
             projectNode == Node(ProjectRoot, "project", 0, isExpanded,
                                 Len(c.wbsStructure), NULL, NULL,
                                 <<>>, <<>>, <<>>, NULL, NULL)
             tree == buildWBSTree(c, NULL, 1, 0)
         IN IF ~isExpanded THEN Built(<<projectNode>>)
            ELSE IF tree.ok
                 THEN Built(<<projectNode>> \o tree.nodes \o unassignedNodes(c))
                 ELSE Failed

\* EnhancedActivitiesPage.buildWBSNodes, root-level test
IsRootEnhanced(w) ==
    w.proj_node_flag = "Y" \/ w.level = 0 \/ Falsy(w.parent_wbs_id)

\* EnhancedActivitiesPage: the activity rows pushed under a WBS node
ActivityNodeEnhanced(a, level) ==
    Node("activity-" \o a.task_id, "activity", level, FALSE, 0, a.wbs_id, a.task_id,
         a.duration_days, a.progress_pct, a.total_float_days,
         a.early_start_date, a.early_end_date)

\* EnhancedActivitiesPage.buildWBSNodes
RECURSIVE buildWBSNodesEnhanced(_,_,_,_)
buildWBSNodesEnhanced(c, parentId, level, depth) ==
    IF depth > Len(c.wbsStructure) THEN Failed
    ELSE
    LET childWBS == ArraySort("wbs_order",
            SelectSeq(c.wbsStructure, LAMBDA w :
                IF parentId = NULL THEN IsRootEnhanced(w)
                ELSE w.parent_wbs_id = parentId))
        One(wbs) ==
            LET wbsActivities == ActivitiesByWbsId(c.activities, wbs.wbs_id)
                hasChildWBS == \E i \in 1..Len(c.wbsStructure) :
                                   c.wbsStructure[i].parent_wbs_id = wbs.wbs_id
                isExpanded == wbs.wbs_id \in c.expanded
                allDescendantActivities == getAllDescendantActivitiesEnhanced(c, wbs.wbs_id, 1)
                rollupData == calculateWBSRollups(allDescendantActivities.nodes)
                wbsNode == [Node("wbs-" \o wbs.wbs_id, "wbs", level, isExpanded,
                                 Len(allDescendantActivities.nodes), wbs.wbs_id, NULL,
                                 <<rollupData.totalDuration>>, <<rollupData.progress_pct>>,
                                 <<rollupData.minFloat>>,
                                 rollupData.startDate, rollupData.endDate)
                            EXCEPT !.hasChildren = hasChildWBS \/ Len(wbsActivities) > 0]
                below == IF isExpanded /\ hasChildWBS
                         THEN buildWBSNodesEnhanced(c, wbs.wbs_id, level + 1, depth + 1)
                         ELSE Built(<<>>)
                sorted == ArraySort("activity_enhanced", wbsActivities)
                rows == IF isExpanded
                        THEN [i \in 1..Len(sorted) |-> ActivityNodeEnhanced(sorted[i], level + 1)]
                        ELSE <<>>
            IN IF allDescendantActivities.ok /\ below.ok
               THEN Built(<<wbsNode>> \o below.nodes \o rows)
               ELSE Failed
        each == [i \in 1..Len(childWBS) |-> One(childWBS[i])]
    IN IF AllOk(each) THEN Built(NodesOf(each)) ELSE Failed

\* EnhancedActivitiesPage: the treeData useMemo
treeData(c) ==
    IF Len(c.wbsStructure) = 0 \/ Len(c.activities) = 0 THEN Built(<<>>)
    ELSE IF c.projectSummary = <<>> THEN Built(<<>>)
    ELSE LET summary == c.projectSummary[1]
             isExpanded == ProjectRoot \in c.expanded
             projectNode == Node(ProjectRoot, "project", 0, isExpanded,
                                 Len(c.activities), NULL, NULL,
                                 <<summary.totalDuration>>, <<summary.progress_pct>>, <<>>,
                                 summary.startDate, summary.endDate)
             tree == buildWBSNodesEnhanced(c, NULL, 1, 0)
         IN IF ~isExpanded THEN Built(<<projectNode>>)
            ELSE IF tree.ok THEN Built(<<projectNode>> \o tree.nodes)
                 ELSE Failed

\* GanttChart.projectTimeline is null: no activity, or none with both dates
NoProjectTimeline(acts) ==
    Len(acts) = 0 \/ Len(SelectSeq(acts, HasBothDates)) = 0

\* GanttChart.buildWBSNodes, root-level test
IsRootGantt(w) == w.level = 0 \/ Falsy(w.parent_wbs_id)

\* GanttChart: the activity rows pushed under a WBS node
ActivityNodeGantt(a, level) ==
    Node("activity-" \o a.task_id, "activity", level, FALSE, 0, a.wbs_id, a.task_id,
         <<OrZero(a.duration_days)>>, <<OrZero(a.progress_pct)>>,
         <<OrZero(a.total_float_days)>>,
         IF Falsy(a.early_start_date) THEN <<>> ELSE <<GetTime(a.early_start_date)>>,
         IF Falsy(a.early_end_date) THEN <<>> ELSE <<GetTime(a.early_end_date)>>)

\* GanttChart.buildWBSNodes
RECURSIVE buildWBSNodesGantt(_,_,_,_)
buildWBSNodesGantt(c, parentId, level, depth) ==
    IF depth > Len(c.wbsStructure) THEN Failed
    ELSE
    LET childWBS == ArraySort("wbs_name",
            SelectSeq(c.wbsStructure, LAMBDA w :
                IF parentId = NULL THEN IsRootGantt(w)
                ELSE w.parent_wbs_id = parentId))
        One(wbs) ==
            LET wbsActivities == ActivitiesByWbsId(c.activities, wbs.wbs_id)
                isExpanded == wbs.wbs_id \in c.expanded
                summary == ganttWBSSummary(wbsActivities)
                wbsNode == Node("wbs-" \o wbs.wbs_id, "wbs", level, isExpanded,
                                Len(wbsActivities), wbs.wbs_id, NULL,
                                <<summary.totalDuration>>, <<summary.progress_pct>>,
                                <<summary.minFloat>>, summary.startDate, summary.endDate)
                sorted == ArraySort("activity_gantt", wbsActivities)
                rows == IF isExpanded
                        THEN [i \in 1..Len(sorted) |-> ActivityNodeGantt(sorted[i], level + 1)]
                        ELSE <<>>
                below == IF isExpanded
                         THEN buildWBSNodesGantt(c, wbs.wbs_id, level + 1, depth + 1)
                         ELSE Built(<<>>)
            IN IF below.ok THEN Built(<<wbsNode>> \o rows \o below.nodes) ELSE Failed
        each == [i \in 1..Len(childWBS) |-> One(childWBS[i])]
    IN IF AllOk(each) THEN Built(NodesOf(each)) ELSE Failed

\* GanttChart: the ganttData useMemo
ganttData(c) ==
    IF NoProjectTimeline(c.activities) \/ Len(c.wbsStructure) = 0 THEN Built(<<>>)
    ELSE buildWBSNodesGantt(c, NULL, 0, 0)

\* The builder of view v
Build(v, c) ==
    CASE v = "ActivitiesPage" -> hierarchyAP(c)
      [] v = "EnhancedActivitiesPage" -> treeData(c)
      [] v = "GanttChart" -> ganttData(c)
      [] OTHER -> Built(<<>>)

-----------------------------------------------------------------------------
(* What a successful load leaves in the view's state.                      *)

Prefix(s, n) == SubSeq(s, 1, IF Len(s) < n THEN Len(s) ELSE n)

WbsIdsOf(s) == {s[i].wbs_id : i \in 1..Len(s)}

\* ActivitiesPage.fetchActivities: auto-expand first few levels of WBS
autoExpandAP(wbs, old) ==
    IF Len(wbs) > 0
    THEN {ProjectRoot} \cup WbsIdsOf(Prefix(SelectSeq(wbs, LAMBDA w :
             Falsy(w.parent_wbs_id) \/ w.parent_wbs_id = w.proj_id), 5))
    ELSE {ProjectRoot}

\* EnhancedActivitiesPage.fetchActivities: auto-expand first few levels
autoExpandEnhanced(wbs, old) ==
    IF Len(wbs) > 0
    THEN {ProjectRoot} \cup WbsIdsOf(Prefix(SelectSeq(wbs, LAMBDA w :
             w.proj_node_flag = "Y" \/ w.level <= 1), 3))
    ELSE old

\* GanttChart.fetchData: rootWBS and setExpandedWBS
autoExpandGantt(wbs, old) ==
    {ProjectRoot} \cup WbsIdsOf(Prefix(SelectSeq(wbs, LAMBDA w : w.level <= 1), 3))

AutoExpand(v, wbs, old) ==
    CASE v = "ActivitiesPage" -> autoExpandAP(wbs, old)
      [] v = "EnhancedActivitiesPage" -> autoExpandEnhanced(wbs, old)
      [] v = "GanttChart" -> autoExpandGantt(wbs, old)

\* The builder input the state holds
Ctx(acts, wbs, pinfo, psum, exp) ==
    [activities |-> acts, wbsStructure |-> wbs, projectInfo |-> pinfo,
     projectSummary |-> psum, expanded |-> exp]

-----------------------------------------------------------------------------
(* The API payloads the model draws from.                                  *)

Views == {"ActivitiesPage", "EnhancedActivitiesPage", "GanttChart"}

WbsIdPool == <<"W1", "W2", "W3">>

WbsNamePool == <<"Site", "Design", "Build">>

ActIdPool == <<"T1", "T2", "T3">>

\* project_id?.toString() and schedule_id?.toString() of the loaded project_info
LoadedProjectInfo == [project_id |-> "1", schedule_id |-> "7"]

ParentChoices == {NULL, LoadedProjectInfo.project_id} \cup {WbsIdPool[j] : j \in 1..MaxWBS}

MarkChoices == {<<0, "N">>, <<1, "N">>, <<1, "Y">>}

WbsItem(i, parent, mark) ==
    [wbs_id |-> WbsIdPool[i], wbs_name |-> WbsNamePool[i], wbs_code |-> NULL,
     parent_wbs_id |-> parent, proj_id |-> LoadedProjectInfo.project_id,
     proj_node_flag |-> mark[2], level |-> mark[1], sort_order |-> <<>>]

WbsLists ==
    UNION {{[i \in 1..n |-> WbsItem(i, f[i][1], f[i][2])] :
               f \in [1..n -> ParentChoices \X MarkChoices]} : n \in 0..MaxWBS}

\* The activities of the structural payloads: fixed figures, free WBS assignment
BuildActivity(i, wbsId) ==
    [task_id |-> ActIdPool[i], wbs_id |-> wbsId, activity_code |-> NULL,
     duration_days |-> <<12 - 2 * i>>, progress_pct |-> <<50 * i>>,
     total_float_days |-> <<3 * (i - 1)>>,
     early_start_date |-> IF i = 1 THEN "2024-01-01" ELSE "2024-01-05",
     early_end_date |-> "2024-01-10"]

ActWbsChoices == {"", "ZZ"} \cup {WbsIdPool[j] : j \in 1..MaxWBS}

BuildActivityLists ==
    UNION {{[i \in 1..n |-> BuildActivity(i, f[i])] : f \in [1..n -> ActWbsChoices]} :
              n \in 0..MaxActs}

\* The activities of the rollup inputs: free figures
DurationChoices == {<<>>, <<0>>, <<3>>}

ProgressChoices == {<<40>>, <<100>>}

FloatChoices == {<<>>, <<5>>}

RollupActivity(i, d, p, f, s, e) ==
    [task_id |-> ActIdPool[i], wbs_id |-> "W1", activity_code |-> NULL,
     duration_days |-> d, progress_pct |-> p, total_float_days |-> f,
     early_start_date |-> s, early_end_date |-> e]

DateChoices ==
    {<<NULL, "2024-01-10">>, <<"2024-01-01", NULL>>,
     <<"2024-01-01", "2024-01-05">>, <<"2024-01-05", "2024-01-10">>}

RollupChoices == DurationChoices \X ProgressChoices \X FloatChoices \X DateChoices

\* The activity list the choices f[1], ..., f[n] make
RollupActivityList(n, f) ==
    [i \in 1..n |-> RollupActivity(i, f[i][1], f[i][2], f[i][3], f[i][4][1], f[i][4][2])]

-----------------------------------------------------------------------------
(* The API the views call.                                                 *)

Projects == {1}

\* GET /api/projects/<p>/schedules
ScheduleList(p) == {1, 2}

\* GET /api/schedules/<id>/activities, the bodies of its success responses
ViewPayloads ==
    {[activities |-> <<>>, wbs_structure |-> <<>>],
     [activities |-> <<BuildActivity(1, "W1")>>,
      wbs_structure |-> <<WbsItem(1, NULL, <<1, "N">>)>>]}

\* ... and the ways it fails: fetch rejects, a non-2xx status, or a 2xx body
\* whose success flag is false or absent, with or without an error message
Failures ==
    {"network", "http", "rejected", "rejected_message", "unflagged", "unflagged_message"}

\* The 2xx bodies whose success flag is false ("rejected") or absent ("unflagged")
Envelopes == {"rejected", "rejected_message", "unflagged", "unflagged_message"}

\* data.error of a body: the server's message, or NULL when it sends none
ServerError(failure) ==
    IF failure \in {"rejected_message", "unflagged_message"} THEN "Schedule not found"
    ELSE NULL

\* A message that is never the server's: err.message is the fixed text
ErrorMessageGeneric(failure) ==
    CASE failure = "network" -> "Failed to fetch"
      [] failure = "http" -> "Failed to load activities: 500"
      [] OTHER -> "Failed to load activities"

\* err.message of the error the catch block receives
ErrorMessage(failure) ==
    CASE failure = "network" -> "Failed to fetch"
      [] failure = "http" -> "Failed to load activities: 500"
      [] OTHER -> IF Falsy(ServerError(failure)) THEN "Failed to load activities"
                  ELSE ServerError(failure)

-----------------------------------------------------------------------------
(* State of a view that is not mounted, and of a freshly mounted one.      *)

NoView ==
    /\ view = "none"
    /\ loading = FALSE
    /\ error = NULL
    /\ searchTerm = ""
    /\ statusFilter = "all"
    /\ timer = <<>>
    /\ activities = <<>>
    /\ wbsStructure = <<>>
    /\ projectInfo = <<>>
    /\ projectSummary = <<>>
    /\ expanded = {}
    /\ hierarchy = Built(<<>>)
    /\ issued = 0
    /\ applied = 0

NoApp ==
    /\ currentView = "projects"
    /\ selectedProject = 0
    /\ selectedSchedule = 0
    /\ schedules = {}
    /\ loadingSchedules = FALSE
    /\ schedFetches = [p \in Projects |-> 0]
    /\ newProject = ""
    /\ creatingProject = FALSE
    /\ newSchedule = ""
    /\ creatingSchedule = FALSE
    /\ selectedFile = <<>>
    /\ uploadScheduleName = ""
    /\ uploading = FALSE
    /\ uploadProgress = 0
    /\ intervals = {}
    /\ calls = {}
    /\ nextCall = 1
    /\ lastAlert = NULL

NoRequests ==
    /\ inst = 0
    /\ inflight = {}
    /\ nextReq = 1

NoRollup ==
    /\ site = "none"
    /\ stats = <<>>

\* The component unmounts: its state is gone, the debounce effect's cleanup
\* clears the timer; requests it started stay in flight.
Unmounted ==
    /\ view' = "none"
    /\ loading' = FALSE
    /\ error' = NULL
    /\ searchTerm' = ""
    /\ statusFilter' = "all"
    /\ timer' = <<>>
    /\ activities' = <<>>
    /\ wbsStructure' = <<>>
    /\ projectInfo' = <<>>
    /\ projectSummary' = <<>>
    /\ expanded' = {}
    /\ hierarchy' = Built(<<>>)
    /\ issued' = 0
    /\ applied' = 0
    /\ UNCHANGED <<inst, inflight, nextReq>>

\* The useState initial values of a mounted view
MountedState(v) ==
    /\ view' = v
    /\ inst' = inst + 1
    /\ loading' = TRUE
    /\ error' = NULL
    /\ searchTerm' = ""
    /\ statusFilter' = "all"
    /\ activities' = <<>>
    /\ wbsStructure' = <<>>
    /\ projectInfo' = <<>>
    /\ projectSummary' = <<>>
    /\ expanded' = {}
    /\ hierarchy' = Built(<<>>)
    /\ applied' = 0

-----------------------------------------------------------------------------
(* Specification SpecBuild: a loaded view, its nodes toggled.              *)

InitBuild ==
    /\ mode = "build"
    /\ NoApp /\ NoRequests /\ NoRollup
    /\ view \in Views
    /\ wbsStructure \in WbsLists
    /\ activities \in BuildActivityLists
    /\ projectInfo \in (IF view = "ActivitiesPage" THEN {<<>>, <<LoadedProjectInfo>>} ELSE {<<>>})
    /\ projectSummary = IF view = "EnhancedActivitiesPage"
                        THEN <<calculateEnhancedProjectSummary(activities)>> ELSE <<>>
    /\ expanded = AutoExpand(view, wbsStructure, {})
    /\ hierarchy = Build(view, Ctx(activities, wbsStructure, projectInfo, projectSummary, expanded))
    /\ loading = FALSE
    /\ error = NULL
    /\ searchTerm = ""
    /\ statusFilter = "all"
    /\ timer = <<>>
    /\ issued = 1
    /\ applied = 1

\* The tree is on screen: neither the loading view nor the error panel
TreeRendered == view # "none" /\ ~loading /\ error = NULL

\* The ids a click on a rendered row toggles
ToggleIds(v, nodes) ==
    {IF nodes[i].type = "project" THEN ProjectRoot ELSE nodes[i].wbs_id :
        i \in {j \in 1..Len(nodes) :
                 CASE v = "ActivitiesPage" -> nodes[j].type \in {"project", "wbs"}
                   [] v = "EnhancedActivitiesPage" ->
                        \/ nodes[j].type = "project"
                        \/ nodes[j].type = "wbs" /\ nodes[j].hasChildren
                   [] v = "GanttChart" -> nodes[j].type = "wbs"
                   [] OTHER -> FALSE}}

\* A toggle that only ever adds the id
toggledAddOnly(exp, nodeId) == exp \cup {nodeId}

\* toggleNode / toggleWBS
toggled(exp, nodeId) == IF nodeId \in exp THEN exp \ {nodeId} ELSE exp \cup {nodeId}

\* A click on an expander whose re-render keeps the memoised hierarchy: what
\* the click would do were the expanded set missing from the useMemo
\* dependencies.
ToggleNodeStaleMemo(nodeId) ==
    /\ TreeRendered
    /\ hierarchy.ok
    /\ nodeId \in ToggleIds(view, hierarchy.nodes)
    /\ expanded' = toggled(expanded, nodeId)
    /\ UNCHANGED <<mode, appVars, view, fetchVars, dataVars, hierarchy, rollupVars>>

\* A click whose re-render sorts the lists of the state themselves
ToggleNodeSortingInputs(nodeId) ==
    /\ TreeRendered
    /\ hierarchy.ok
    /\ nodeId \in ToggleIds(view, hierarchy.nodes)
    /\ expanded' = toggled(expanded, nodeId)
    /\ activities' = ArraySort("activity_gantt", activities)
    /\ wbsStructure' = ArraySort("wbs_name", wbsStructure)
    /\ hierarchy' = Build(view, Ctx(activities', wbsStructure', projectInfo, projectSummary, expanded'))
    /\ UNCHANGED <<mode, appVars, view, fetchVars, projectInfo, projectSummary, rollupVars>>

\* A click on an expander, and the re-render it causes
ToggleNode(nodeId) ==
    /\ TreeRendered
    /\ hierarchy.ok
    /\ nodeId \in ToggleIds(view, hierarchy.nodes)
    /\ expanded' = toggled(expanded, nodeId)
    /\ hierarchy' = Build(view, Ctx(activities, wbsStructure, projectInfo, projectSummary, expanded'))
    /\ UNCHANGED <<mode, appVars, view, fetchVars, dataVars, rollupVars>>

\* The Expand All and Collapse All buttons are rendered
ExpandButtonsRendered ==
    /\ TreeRendered
    /\ hierarchy.ok
    /\ CASE view = "ActivitiesPage" -> Len(hierarchy.nodes) > 0
         [] view = "EnhancedActivitiesPage" -> Len(wbsStructure) > 0
         [] OTHER -> FALSE

\* A click on Expand All, and the re-render it causes
ExpandAll ==
    /\ ExpandButtonsRendered
    /\ expanded' = {ProjectRoot} \cup WbsIdsOf(wbsStructure)
                      \cup (IF view = "ActivitiesPage" THEN {UnassignedKey} ELSE {})
    /\ hierarchy' = Build(view, Ctx(activities, wbsStructure, projectInfo, projectSummary, expanded'))
    /\ UNCHANGED <<mode, appVars, view, fetchVars, dataVars, rollupVars>>

\* A click on Collapse All, and the re-render it causes
CollapseAll ==
    /\ ExpandButtonsRendered
    /\ expanded' = IF view = "ActivitiesPage" THEN {} ELSE {ProjectRoot}
    /\ hierarchy' = Build(view, Ctx(activities, wbsStructure, projectInfo, projectSummary, expanded'))
    /\ UNCHANGED <<mode, appVars, view, fetchVars, dataVars, rollupVars>>

NodeIds == {ProjectRoot, UnassignedKey} \cup {WbsIdPool[j] : j \in 1..MaxWBS}

NextBuild ==
    \/ \E nodeId \in NodeIds : mode = "build" /\ ToggleNode(nodeId)
    \/ mode = "build" /\ ExpandAll
    \/ mode = "build" /\ CollapseAll

SpecBuild == InitBuild /\ [][NextBuild]_vars

-----------------------------------------------------------------------------
(* Specification SpecLoaded: a view that has loaded a payload as the       *)
(* backend builds it, its nodes toggled.  In such a payload the WBS list   *)
(* is a forest in which a node follows its parent, level is the depth of   *)
(* the node, proj_node_flag marks the roots, and an activity names a node  *)
(* of the list or none.                                                    *)

\* The depth of node i when g[j] is the index of the parent of node j, 0 for none
RECURSIVE DepthOf(_,_)
DepthOf(g, i) == IF g[i] = 0 THEN 0 ELSE 1 + DepthOf(g, g[i])

ForestItem(g, i) ==
    WbsItem(i, IF g[i] = 0 THEN NULL ELSE WbsIdPool[g[i]],
            <<DepthOf(g, i), IF g[i] = 0 THEN "Y" ELSE "N">>)

ForestList(n, g) == [i \in 1..n |-> ForestItem(g, i)]

InitLoaded ==
    /\ mode = "loaded"
    /\ NoApp /\ NoRequests /\ NoRollup
    /\ view \in Views
    /\ \E n \in 0..MaxWBS :
          \E g \in [1..n -> 0..MaxWBS] :
              /\ \A i \in 1..n : g[i] < i
              /\ wbsStructure = ForestList(n, g)
    /\ \E m \in 0..MaxActs :
          \E f \in [1..m -> {""} \cup WbsIdsOf(wbsStructure)] :
              activities = [i \in 1..m |-> BuildActivity(i, f[i])]
    /\ projectInfo = IF view = "ActivitiesPage" THEN <<LoadedProjectInfo>> ELSE <<>>
    /\ projectSummary = IF view = "EnhancedActivitiesPage"
                        THEN <<calculateEnhancedProjectSummary(activities)>> ELSE <<>>
    /\ expanded = AutoExpand(view, wbsStructure, {})
    /\ hierarchy = Build(view, Ctx(activities, wbsStructure, projectInfo, projectSummary, expanded))
    /\ loading = FALSE
    /\ error = NULL
    /\ searchTerm = ""
    /\ statusFilter = "all"
    /\ timer = <<>>
    /\ issued = 1
    /\ applied = 1

NextLoaded ==
    \/ \E nodeId \in NodeIds : mode = "loaded" /\ ToggleNode(nodeId)
    \/ mode = "loaded" /\ ExpandAll
    \/ mode = "loaded" /\ CollapseAll

SpecLoaded == InitLoaded /\ [][NextLoaded]_vars

-----------------------------------------------------------------------------
(* Specification SpecOrder: a view holding one or two root WBS items, the  *)
(* first with direct activities that come in any order of the list, with   *)
(* and without start dates and with equal ones; then clicks on expanders.  *)

MaxOrderActs == 2

StartChoices == {NULL, "2024-01-01", "2024-01-05"}

OrderActivity(id, start) ==
    [task_id |-> id, wbs_id |-> "W1", activity_code |-> NULL,
     duration_days |-> <<10>>, progress_pct |-> <<50>>, total_float_days |-> <<0>>,
     early_start_date |-> start, early_end_date |-> "2024-01-10"]

\* The WBS lists: the root "Site" alone, or followed by the root "Design"
OrderWbsLists == {ForestList(1, <<0>>), ForestList(2, <<0, 0>>)}

InitOrder ==
    /\ mode = "order"
    /\ NoApp /\ NoRequests /\ NoRollup
    /\ view \in Views
    /\ wbsStructure \in OrderWbsLists
    /\ \E n \in 0..MaxOrderActs :
          \E ids \in [1..n -> 1..MaxOrderActs], starts \in [1..n -> StartChoices] :
              /\ \A i, j \in 1..n : ids[i] = ids[j] => i = j
              /\ activities = [i \in 1..n |-> OrderActivity(ActIdPool[ids[i]], starts[i])]
    /\ projectInfo = IF view = "ActivitiesPage" THEN <<LoadedProjectInfo>> ELSE <<>>
    /\ projectSummary = IF view = "EnhancedActivitiesPage"
                        THEN <<calculateEnhancedProjectSummary(activities)>> ELSE <<>>
    /\ expanded = AutoExpand(view, wbsStructure, {})
    /\ hierarchy = Build(view, Ctx(activities, wbsStructure, projectInfo, projectSummary, expanded))
    /\ loading = FALSE
    /\ error = NULL
    /\ searchTerm = ""
    /\ statusFilter = "all"
    /\ timer = <<>>
    /\ issued = 1
    /\ applied = 1

NextOrder ==
    \/ \E nodeId \in NodeIds : mode = "order" /\ ToggleNode(nodeId)
    \/ mode = "order" /\ ExpandAll
    \/ mode = "order" /\ CollapseAll

SpecOrder == InitOrder /\ [][NextOrder]_vars

-----------------------------------------------------------------------------
(* Specification SpecRollup: the rollup calculators applied to an input.   *)

InitRollup ==
    /\ mode = "rollup"
    /\ NoApp /\ NoRequests /\ NoRollup
    /\ \E n \in 0..MaxRollupActs :
          \E f \in [1..n -> RollupChoices] : activities = RollupActivityList(n, f)
    /\ view = "none"
    /\ loading = FALSE
    /\ error = NULL
    /\ searchTerm = ""
    /\ statusFilter = "all"
    /\ timer = <<>>
    /\ wbsStructure = <<>>
    /\ projectInfo = <<>>
    /\ projectSummary = <<>>
    /\ expanded = {}
    /\ hierarchy = Built(<<>>)
    /\ issued = 0
    /\ applied = 0

RunCalculateWBSStats ==
    /\ mode = "rollup"
    /\ site' = "calculateWBSStats"
    /\ stats' = <<calculateWBSStats(activities)>>
    /\ UNCHANGED <<mode, appVars, view, fetchVars, dataVars, treeVars>>

RunCalculateWBSRollups ==
    /\ mode = "rollup"
    /\ site' = "calculateWBSRollups"
    /\ stats' = <<calculateWBSRollups(activities)>>
    /\ UNCHANGED <<mode, appVars, view, fetchVars, dataVars, treeVars>>

RunCalculateEnhancedProjectSummary ==
    /\ mode = "rollup"
    /\ site' = "calculateEnhancedProjectSummary"
    /\ stats' = <<calculateEnhancedProjectSummary(activities)>>
    /\ UNCHANGED <<mode, appVars, view, fetchVars, dataVars, treeVars>>

RunGanttWBSSummary ==
    /\ mode = "rollup"
    /\ site' = "ganttWBSSummary"
    /\ stats' = <<ganttWBSSummary(activities)>>
    /\ UNCHANGED <<mode, appVars, view, fetchVars, dataVars, treeVars>>

NextRollup ==
    \/ RunCalculateWBSStats
    \/ RunCalculateWBSRollups
    \/ RunCalculateEnhancedProjectSummary
    \/ RunGanttWBSSummary

SpecRollup == InitRollup /\ [][NextRollup]_vars

-----------------------------------------------------------------------------
(* Specification SpecView: the App navigates between its pages and mounts  *)
(* the activities view or the Gantt chart, which fetch their data.  A      *)
(* render is atomic with the state update that causes it, and an effect    *)
(* runs once per mount and per change of its dependencies.                 *)

\* The delay of the debounce effect's setTimeout, in milliseconds
DebounceMs == 300

\* The steps in which the delay elapses
ElapseChoices == {DebounceMs \div 2}

SearchTerms == {"", "pour"}

StatusFilters == {"all", "in_progress"}

InitView ==
    /\ mode = "view"
    /\ NoApp /\ NoRequests /\ NoView /\ NoRollup

SchedFetchesInFlight == SumSeq([i \in 1..Cardinality(Projects) |-> schedFetches[i]])

\* App is on screen
AppMounted == mode \in {"view", "app"}

\* App.fetchSchedules up to its await
fetchSchedules(p) ==
    /\ loadingSchedules' = TRUE
    /\ schedFetches' = [schedFetches EXCEPT ![p] = @ + 1]

\* App.viewProjectSchedules
viewProjectSchedules(p) ==
    /\ AppMounted
    /\ currentView = "projects"
    /\ SchedFetchesInFlight < MaxSchedFetches
    /\ selectedProject' = p
    /\ currentView' = "schedules"
    /\ fetchSchedules(p)
    /\ lastAlert' = NULL
    /\ UNCHANGED <<mode, selectedSchedule, schedules, formVars, view, fetchVars, dataVars,
                   treeVars, rollupVars>>

\* App.fetchSchedules from its await on: the list arrives, or the fetch fails
SchedulesResponse(p, ok) ==
    /\ AppMounted
    /\ schedFetches[p] > 0
    /\ schedFetches' = [schedFetches EXCEPT ![p] = @ - 1]
    /\ schedules' = IF ok THEN ScheduleList(p) ELSE schedules
    /\ loadingSchedules' = FALSE
    /\ lastAlert' = NULL
    /\ UNCHANGED <<mode, currentView, selectedProject, selectedSchedule, formVars, view,
                   fetchVars, dataVars, treeVars, rollupVars>>

\* A request of the mounted view for the activities of its schedule
Request(search, status) ==
    [id |-> nextReq, inst |-> inst', seq |-> issued', schedule |-> selectedSchedule',
     search |-> search, status |-> status]

\* App.viewScheduleActivities: EnhancedActivitiesPage mounts, its debounce
\* effect arms the timer.
viewScheduleActivities(s) ==
    /\ mode = "view"
    /\ currentView = "schedules"
    /\ ~loadingSchedules
    /\ s \in schedules
    /\ inst < MaxMounts
    /\ selectedSchedule' = s
    /\ currentView' = "activities"
    /\ MountedState("EnhancedActivitiesPage")
    /\ timer' = <<[search |-> "", status |-> "all", due |-> DebounceMs]>>
    /\ issued' = 0
    /\ UNCHANGED <<mode, selectedProject, schedules, loadingSchedules, schedFetches, formVars,
                   lastAlert,
                   inflight, nextReq, rollupVars>>

\* App.viewScheduleGantt: GanttChart mounts, its effect calls fetchData.
viewScheduleGantt(s) ==
    /\ mode = "view"
    /\ currentView = "schedules"
    /\ ~loadingSchedules
    /\ s \in schedules
    /\ inst < MaxMounts
    /\ nextReq <= MaxRequests
    /\ selectedSchedule' = s
    /\ currentView' = "gantt"
    /\ MountedState("GanttChart")
    /\ timer' = <<>>
    /\ issued' = 1
    /\ inflight' = inflight \cup {Request("", "all")}
    /\ nextReq' = nextReq + 1
    /\ UNCHANGED <<mode, selectedProject, schedules, loadingSchedules, schedFetches, formVars,
                   lastAlert,
                   rollupVars>>

\* Time passes while the debounce timer is pending: ms milliseconds of the
\* delay elapse.  A timer that is due fires before more time passes.
Elapse(ms) ==
    /\ mode = "view"
    /\ timer # <<>>
    /\ ms <= timer[1].due
    /\ timer' = <<[timer[1] EXCEPT !.due = @ - ms]>>
    /\ UNCHANGED <<mode, appVars, view, inst, loading, error, searchTerm, statusFilter,
                   inflight, nextReq, issued, applied, dataVars, treeVars, rollupVars>>

\* EnhancedActivitiesPage: the 300 ms timer fires, fetchActivities runs up to its await
TimerFires ==
    /\ mode = "view"
    /\ view = "EnhancedActivitiesPage"
    /\ timer # <<>>
    /\ timer[1].due = 0
    /\ nextReq <= MaxRequests
    /\ loading' = TRUE
    /\ error' = NULL
    /\ issued' = issued + 1
    /\ inflight' = inflight \cup
          {[id |-> nextReq, inst |-> inst, seq |-> issued', schedule |-> selectedSchedule,
            search |-> timer[1].search, status |-> timer[1].status]}
    /\ nextReq' = nextReq + 1
    /\ timer' = <<>>
    /\ UNCHANGED <<mode, appVars, view, inst, searchTerm, statusFilter, applied,
                   dataVars, treeVars, rollupVars>>

\* A variant of the page that renders the search input in every state
SearchInputAlwaysRendered == view = "EnhancedActivitiesPage"

\* A variant of the page whose error panel keeps the search input
SearchInputRenderedOnError == view = "EnhancedActivitiesPage" /\ ~loading

\* EnhancedActivitiesPage renders the search input only past its loading and
\* error returns.
SearchInputRendered == view = "EnhancedActivitiesPage" /\ ~loading /\ error = NULL

\* A variant of the page that renders the status select in every state
StatusSelectAlwaysRendered == view = "EnhancedActivitiesPage"

\* ... and the status select likewise
StatusSelectRendered == view = "EnhancedActivitiesPage" /\ ~loading /\ error = NULL

\* A search input without the debounce: the change calls fetchActivities at once
SetSearchTermUndebounced(v) ==
    /\ mode = "view"
    /\ SearchInputRendered
    /\ v # searchTerm
    /\ nextReq <= MaxRequests
    /\ searchTerm' = v
    /\ loading' = TRUE
    /\ issued' = issued + 1
    /\ inflight' = inflight \cup
          {[id |-> nextReq, inst |-> inst, seq |-> issued', schedule |-> selectedSchedule,
            search |-> v, status |-> statusFilter]}
    /\ nextReq' = nextReq + 1
    /\ UNCHANGED <<mode, appVars, view, inst, error, statusFilter, timer, applied,
                   dataVars, treeVars, rollupVars>>

\* The search input's onChange: fetchActivities changes, the debounce effect
\* clears the timer and arms a new one.
SetSearchTerm(v) ==
    /\ mode = "view"
    /\ SearchInputRendered
    /\ v # searchTerm
    /\ searchTerm' = v
    /\ timer' = <<[search |-> v, status |-> statusFilter, due |-> DebounceMs]>>
    /\ UNCHANGED <<mode, appVars, view, inst, loading, error, statusFilter, inflight,
                   nextReq, issued, applied, dataVars, treeVars, rollupVars>>

\* The status select's onChange
SetStatusFilter(v) ==
    /\ mode = "view"
    /\ StatusSelectRendered
    /\ v # statusFilter
    /\ statusFilter' = v
    /\ timer' = <<[search |-> searchTerm, status |-> v, due |-> DebounceMs]>>
    /\ UNCHANGED <<mode, appVars, view, inst, loading, error, searchTerm, inflight,
                   nextReq, issued, applied, dataVars, treeVars, rollupVars>>

\* The request r belongs to the component on screen; the setters of an
\* unmounted component do nothing.
OwnedByMounted(r) == view # "none" /\ r.inst = inst

\* fetchActivities / fetchData from the await on, for a success: true body
ActivityLoaded(r, payload) ==
    /\ mode = "view"
    /\ r \in inflight
    /\ inflight' = inflight \ {r}
    /\ IF OwnedByMounted(r)
       THEN /\ activities' = payload.activities
            /\ wbsStructure' = payload.wbs_structure
            /\ projectSummary' = IF view = "EnhancedActivitiesPage"
                                 THEN <<calculateEnhancedProjectSummary(payload.activities)>>
                                 ELSE projectSummary
            /\ expanded' = AutoExpand(view, payload.wbs_structure, expanded)
            /\ hierarchy' = Build(view, Ctx(activities', wbsStructure', projectInfo,
                                            projectSummary', expanded'))
            /\ loading' = FALSE
            /\ applied' = r.seq
            /\ UNCHANGED <<error, projectInfo>>
       ELSE UNCHANGED <<activities, wbsStructure, projectSummary, expanded, hierarchy,
                        loading, applied, error, projectInfo>>
    /\ UNCHANGED <<mode, appVars, view, inst, searchTerm, statusFilter, timer, nextReq,
                   issued, rollupVars>>

\* A failure whose finally block is left out: the error is set, loading stays
ActivityFailedNoFinally(r, failure) ==
    /\ mode = "view"
    /\ r \in inflight
    /\ inflight' = inflight \ {r}
    /\ IF OwnedByMounted(r)
       THEN /\ error' = ErrorMessage(failure)
            /\ applied' = r.seq
       ELSE UNCHANGED <<error, applied>>
    /\ UNCHANGED <<mode, appVars, view, inst, loading, searchTerm, statusFilter, timer,
                   nextReq, issued, dataVars, treeVars, rollupVars>>

\* ... and for a rejected fetch, a non-2xx status or a success: false body
ActivityFailed(r, failure) ==
    /\ mode = "view"
    /\ r \in inflight
    /\ inflight' = inflight \ {r}
    /\ IF OwnedByMounted(r)
       THEN /\ error' = ErrorMessage(failure)
            /\ loading' = FALSE
            /\ applied' = r.seq
       ELSE UNCHANGED <<error, loading, applied>>
    /\ UNCHANGED <<mode, appVars, view, inst, searchTerm, statusFilter, timer, nextReq,
                   issued, dataVars, treeVars, rollupVars>>

\* App.backToSchedules: the view unmounts, the schedule list is fetched again
backToSchedules ==
    /\ mode = "view"
    /\ currentView \in {"activities", "gantt"}
    /\ SchedFetchesInFlight < MaxSchedFetches
    /\ currentView' = "schedules"
    /\ selectedSchedule' = 0
    /\ fetchSchedules(selectedProject)
    /\ Unmounted
    /\ UNCHANGED <<mode, selectedProject, schedules, formVars, lastAlert, rollupVars>>

\* A backToProjects that leaves the selected schedule in place
backToProjectsKeepingSchedule ==
    /\ mode = "view"
    /\ currentView # "projects"
    /\ currentView' = "projects"
    /\ selectedProject' = 0
    /\ schedules' = {}
    /\ Unmounted
    /\ selectedFile' = <<>>
    /\ uploadScheduleName' = ""
    /\ lastAlert' = NULL
    /\ UNCHANGED <<mode, selectedSchedule, loadingSchedules, schedFetches, projectFormVars,
                   scheduleFormVars, uploading, uploadProgress, intervals, callVars,
                   rollupVars>>

\* App.backToProjects
backToProjects ==
    /\ AppMounted
    /\ currentView # "projects"
    /\ currentView' = "projects"
    /\ selectedProject' = 0
    /\ selectedSchedule' = 0
    /\ schedules' = {}
    /\ Unmounted
    /\ selectedFile' = <<>>
    /\ uploadScheduleName' = ""
    /\ lastAlert' = NULL
    /\ UNCHANGED <<mode, loadingSchedules, schedFetches, projectFormVars, scheduleFormVars,
                   uploading, uploadProgress, intervals, callVars, rollupVars>>

NextView ==
    \/ \E p \in Projects : viewProjectSchedules(p)
    \/ \E p \in Projects, ok \in BOOLEAN : SchedulesResponse(p, ok)
    \/ \E s \in 1..2 : viewScheduleActivities(s)
    \/ \E s \in 1..2 : viewScheduleGantt(s)
    \/ \E ms \in ElapseChoices : Elapse(ms)
    \/ TimerFires
    \/ \E v \in SearchTerms : SetSearchTerm(v)
    \/ \E v \in StatusFilters : SetStatusFilter(v)
    \/ \E r \in inflight, payload \in ViewPayloads : ActivityLoaded(r, payload)
    \/ \E r \in inflight, failure \in Failures : ActivityFailed(r, failure)
    \/ \E nodeId \in NodeIds : mode = "view" /\ ToggleNode(nodeId)
    \/ mode = "view" /\ ExpandAll
    \/ mode = "view" /\ CollapseAll
    \/ backToSchedules
    \/ backToProjects

SpecView == InitView /\ [][NextView]_vars

\* The request numbered id gets its answer: the response arrives or the fetch
\* promise rejects
Answer(id) ==
    \E r \in inflight :
        /\ r.id = id
        /\ \/ \E payload \in ViewPayloads : ActivityLoaded(r, payload)
           \/ \E failure \in Failures : ActivityFailed(r, failure)

\* Every fetch promise settles
SpecViewFair == SpecView /\ \A id \in 1..MaxRequests : WF_vars(Answer(id))

-----------------------------------------------------------------------------
(* Specification SpecApp: the projects page and the schedules page of App, *)
(* with the project form, the schedule form, the .xer upload, the deletion *)
(* of a schedule and the requests they send.  The click handlers           *)
(* createProject, createSchedule and uploadXerFile can be called whenever  *)
(* App is on screen and no request of theirs is in progress (the disabled  *)
(* flags creatingProject, creatingSchedule, uploading); the button         *)
(* attributes that repeat a guard clause of a handler are left out, so     *)
(* that the guard clause itself decides.  Not part of the state: which     *)
(* forms are open (showProjectForm, showScheduleForm, showFileUpload), the *)
(* description fields, the projects list, debugInfo and apiStatus; no      *)
(* handler reads them, and fetchProjects writes nothing else.              *)

MaxCalls == 1

\* String.prototype.trim on the texts of the model
Trim(s) == IF s = " " THEN "" ELSE s

\* What the user types into a name field
NameChoices == {" ", "Tower"}

\* 100 * 1024 * 1024
MaxFileSize == 104857600

\* The files the user picks, size in bytes
FileChoices ==
    {[name |-> "PLAN.XER", size |-> MaxFileSize],
     [name |-> "notes.txt", size |-> 2048],
     [name |-> "big.xer", size |-> MaxFileSize + 1]}

\* file.name.toLowerCase().endsWith('.xer')
EndsWithXer(name) == name \in {"PLAN.XER", "big.xer"}

\* file.name.replace('.xer', '').replace(/[_-]/g, ' ')
BaseName(name) == IF name = "big.xer" THEN "big" ELSE name

\* What the pages below App hold
pageVars == <<mode, view, fetchVars, dataVars, treeVars, rollupVars>>

\* A POST or DELETE request on its way; project is the selectedProject of the
\* closure that sent it
Call(kind) ==
    [id |-> nextCall, kind |-> kind, project |-> selectedProject, phase |-> "fetch",
     ok |-> TRUE]

Send(kind) ==
    /\ nextCall <= MaxCalls
    /\ calls' = calls \cup {Call(kind)}
    /\ nextCall' = nextCall + 1

InitApp ==
    /\ mode = "app"
    /\ NoApp /\ NoRequests /\ NoView /\ NoRollup

\* The name input of the project form
SetNewProject(name) ==
    /\ mode = "app"
    /\ currentView = "projects"
    /\ newProject' = name
    /\ lastAlert' = NULL
    /\ UNCHANGED <<pageVars, navVars, creatingProject, scheduleFormVars, uploadVars, callVars>>

\* A createProject that posts whatever the name field holds
createProjectUnvalidated ==
    /\ mode = "app"
    /\ ~creatingProject
    /\ creatingProject' = TRUE
    /\ Send("createProject")
    /\ lastAlert' = NULL
    /\ UNCHANGED <<pageVars, navVars, newProject, scheduleFormVars, uploadVars>>

\* App.createProject up to its await
createProject ==
    /\ mode = "app"
    /\ ~creatingProject
    /\ IF Trim(newProject) = ""
       THEN /\ lastAlert' = "Project name is required!"
            /\ UNCHANGED <<creatingProject, callVars>>
       ELSE /\ creatingProject' = TRUE
            /\ Send("createProject")
            /\ lastAlert' = NULL
    /\ UNCHANGED <<pageVars, navVars, newProject, scheduleFormVars, uploadVars>>

\* The outcomes of a request: a 2xx response, another status, a rejected fetch
Outcomes == {"ok", "http", "network"}

\* App.createProject from its await on
CreateProjectResponse(c, outcome) ==
    /\ mode = "app"
    /\ c \in calls
    /\ c.kind = "createProject"
    /\ calls' = calls \ {c}
    /\ creatingProject' = FALSE
    /\ newProject' = IF outcome = "ok" THEN "" ELSE newProject
    /\ lastAlert' = CASE outcome = "ok" -> NULL
                      [] outcome = "http" -> "Error creating project: Name taken"
                      [] outcome = "network" -> "Error creating project"
    /\ UNCHANGED <<pageVars, navVars, scheduleFormVars, uploadVars, nextCall>>

\* The name input of the schedule form
SetNewSchedule(name) ==
    /\ mode = "app"
    /\ currentView = "schedules"
    /\ newSchedule' = name
    /\ lastAlert' = NULL
    /\ UNCHANGED <<pageVars, navVars, projectFormVars, creatingSchedule, uploadVars, callVars>>

\* App.createSchedule up to its await
createSchedule ==
    /\ mode = "app"
    /\ ~creatingSchedule
    /\ IF Trim(newSchedule) = "" \/ selectedProject = 0
       THEN /\ lastAlert' = "Schedule name is required!"
            /\ UNCHANGED <<creatingSchedule, callVars>>
       ELSE /\ creatingSchedule' = TRUE
            /\ Send("createSchedule")
            /\ lastAlert' = NULL
    /\ UNCHANGED <<pageVars, navVars, projectFormVars, newSchedule, uploadVars>>

\* App.createSchedule from its await on
CreateScheduleResponse(c, outcome) ==
    /\ mode = "app"
    /\ c \in calls
    /\ c.kind = "createSchedule"
    /\ calls' = calls \ {c}
    /\ creatingSchedule' = FALSE
    /\ IF outcome = "ok"
       THEN /\ SchedFetchesInFlight < MaxSchedFetches
            /\ newSchedule' = ""
            /\ fetchSchedules(c.project)
            /\ lastAlert' = NULL
       ELSE /\ lastAlert' = "Error creating schedule"
            /\ UNCHANGED <<newSchedule, loadingSchedules, schedFetches>>
    /\ UNCHANGED <<pageVars, currentView, selectedProject, selectedSchedule, schedules,
                   projectFormVars, uploadVars, nextCall>>

\* App.handleFileSelect, the change event of the file input
handleFileSelect(file) ==
    /\ mode = "app"
    /\ currentView = "schedules"
    /\ IF ~EndsWithXer(file.name)
       THEN /\ lastAlert' = "Please select a .xer file"
            /\ UNCHANGED <<selectedFile, uploadScheduleName>>
       ELSE IF file.size > MaxFileSize
       THEN /\ lastAlert' = "File size must be less than 100MB"
            /\ UNCHANGED <<selectedFile, uploadScheduleName>>
       ELSE /\ selectedFile' = <<file>>
            /\ uploadScheduleName' = BaseName(file.name)
            /\ lastAlert' = NULL
    /\ UNCHANGED <<pageVars, navVars, projectFormVars, scheduleFormVars, uploading,
                   uploadProgress, intervals, callVars>>

\* The schedule name input under the selected file
SetUploadScheduleName(name) ==
    /\ mode = "app"
    /\ currentView = "schedules"
    /\ selectedFile # <<>>
    /\ uploadScheduleName' = name
    /\ lastAlert' = NULL
    /\ UNCHANGED <<pageVars, navVars, projectFormVars, scheduleFormVars, selectedFile,
                   uploading, uploadProgress, intervals, callVars>>

\* The "Clear" button under the selected file
ClearSelectedFile ==
    /\ mode = "app"
    /\ currentView = "schedules"
    /\ selectedFile # <<>>
    /\ ~uploading
    /\ selectedFile' = <<>>
    /\ uploadScheduleName' = ""
    /\ lastAlert' = NULL
    /\ UNCHANGED <<pageVars, navVars, projectFormVars, scheduleFormVars, uploading,
                   uploadProgress, intervals, callVars>>

\* App.uploadXerFile up to its await: the progress interval starts with the request
uploadXerFile ==
    /\ mode = "app"
    /\ ~uploading
    /\ IF selectedFile = <<>> \/ selectedProject = 0 \/ Trim(uploadScheduleName) = ""
       THEN /\ lastAlert' = "Please select a file and enter a schedule name"
            /\ UNCHANGED <<uploading, uploadProgress, intervals, callVars>>
       ELSE /\ uploading' = TRUE
            /\ uploadProgress' = 0
            /\ intervals' = intervals \cup {nextCall}
            /\ Send("upload")
            /\ lastAlert' = NULL
    /\ UNCHANGED <<pageVars, navVars, projectFormVars, scheduleFormVars, selectedFile,
                   uploadScheduleName>>

\* A progress interval fires: setUploadProgress(prev => Math.min(prev + 10, 90))
ProgressTick ==
    /\ mode = "app"
    /\ intervals # {}
    /\ uploadProgress' = IF uploadProgress + 10 < 90 THEN uploadProgress + 10 ELSE 90
    /\ lastAlert' = NULL
    /\ UNCHANGED <<pageVars, navVars, projectFormVars, scheduleFormVars, selectedFile,
                   uploadScheduleName, uploading, intervals, callVars>>

\* The end of uploadXerFile, behind its try / catch
UploadFinished ==
    /\ uploading' = FALSE
    /\ uploadProgress' = 0

\* App.uploadXerFile from its await of fetch on: a response stops the interval
\* and its body is awaited; a rejected fetch goes to the catch block.
UploadResponse(c, outcome) ==
    /\ mode = "app"
    /\ c \in calls
    /\ c.kind = "upload"
    /\ c.phase = "fetch"
    /\ IF outcome = "network"
       THEN /\ calls' = calls \ {c}
            /\ lastAlert' = "Upload failed. Please try again."
            /\ UploadFinished
            /\ UNCHANGED intervals
       ELSE /\ calls' = (calls \ {c}) \cup {[c EXCEPT !.phase = "json", !.ok = (outcome = "ok")]}
            /\ intervals' = intervals \ {c.id}
            /\ uploadProgress' = 100
            /\ lastAlert' = NULL
            /\ UNCHANGED uploading
    /\ UNCHANGED <<pageVars, navVars, projectFormVars, scheduleFormVars, selectedFile,
                   uploadScheduleName, nextCall>>

\* App.uploadXerFile from its await of response.json() on
UploadBody(c, parsed) ==
    /\ mode = "app"
    /\ c \in calls
    /\ c.kind = "upload"
    /\ c.phase = "json"
    /\ calls' = calls \ {c}
    /\ UploadFinished
    /\ IF parsed /\ c.ok
       THEN /\ SchedFetchesInFlight < MaxSchedFetches
            /\ selectedFile' = <<>>
            /\ uploadScheduleName' = ""
            /\ fetchSchedules(c.project)
            /\ lastAlert' = "File uploaded successfully!"
       ELSE /\ lastAlert' = IF parsed THEN "Upload failed: Invalid XER"
                                     ELSE "Upload failed. Please try again."
            /\ UNCHANGED <<selectedFile, uploadScheduleName, loadingSchedules, schedFetches>>
    /\ UNCHANGED <<pageVars, currentView, selectedProject, selectedSchedule, schedules,
                   projectFormVars, scheduleFormVars, intervals, nextCall>>

\* App.deleteSchedule up to its await, for a confirmed dialog
deleteSchedule(scheduleId) ==
    /\ mode = "app"
    /\ currentView = "schedules"
    /\ scheduleId \in schedules
    /\ Send("delete")
    /\ lastAlert' = NULL
    /\ UNCHANGED <<pageVars, navVars, projectFormVars, scheduleFormVars, uploadVars>>

\* App.deleteSchedule from its await on
DeleteResponse(c, outcome) ==
    /\ mode = "app"
    /\ c \in calls
    /\ c.kind = "delete"
    /\ calls' = calls \ {c}
    /\ IF outcome = "ok" /\ c.project # 0
       THEN /\ SchedFetchesInFlight < MaxSchedFetches
            /\ fetchSchedules(c.project)
       ELSE UNCHANGED <<loadingSchedules, schedFetches>>
    /\ lastAlert' = IF outcome = "ok" THEN NULL ELSE "Error deleting schedule"
    /\ UNCHANGED <<pageVars, currentView, selectedProject, selectedSchedule, schedules,
                   projectFormVars, scheduleFormVars, uploadVars, nextCall>>

NextApp ==
    \/ \E p \in Projects : mode = "app" /\ viewProjectSchedules(p)
    \/ \E p \in Projects, ok \in BOOLEAN : mode = "app" /\ SchedulesResponse(p, ok)
    \/ mode = "app" /\ backToProjects
    \/ \E name \in NameChoices : SetNewProject(name)
    \/ createProject
    \/ \E c \in calls, outcome \in Outcomes : CreateProjectResponse(c, outcome)
    \/ \E name \in NameChoices : SetNewSchedule(name)
    \/ createSchedule
    \/ \E c \in calls, outcome \in Outcomes : CreateScheduleResponse(c, outcome)
    \/ \E file \in FileChoices : handleFileSelect(file)
    \/ \E name \in NameChoices : SetUploadScheduleName(name)
    \/ ClearSelectedFile
    \/ uploadXerFile
    \/ ProgressTick
    \/ \E c \in calls, outcome \in Outcomes : UploadResponse(c, outcome)
    \/ \E c \in calls, parsed \in BOOLEAN : UploadBody(c, parsed)
    \/ \E s \in 1..2 : deleteSchedule(s)
    \/ \E c \in calls, outcome \in Outcomes : DeleteResponse(c, outcome)

SpecApp == InitApp /\ [][NextApp]_vars

-----------------------------------------------------------------------------
(* Properties of the rollup calculators, under SpecRollup.                 *)

RollupRan == mode = "rollup" /\ site # "none"

\* A date field of a rollup result as <<>> or <<instant>>: the Gantt summary
\* holds Date objects, the other call sites ISO strings or null.
RollupInstant(d) ==
    IF site = "ganttWBSSummary" THEN d
    ELSE IF d = NULL THEN <<>> ELSE <<ParseTime(d)>>

TotalOfDurations == SumSeq(Durations(activities))

DatedActivities == SelectSeq(activities, HasBothDates)

\* C6: at every call site the rollup of an empty activity set is duration 0,
\* progress 0, float 0 (where the result has a float field: the project
\* summary has none), no start date and no end date; a result exists.
C6_RollupOnEmpty ==
    (RollupRan /\ Len(activities) = 0) =>
        /\ Len(stats) = 1
        /\ stats[1].totalDuration = 0
        /\ stats[1].avgProgress.num = 0
        /\ stats[1].progress_pct = 0
        /\ (site # "calculateEnhancedProjectSummary" => stats[1].minFloat = 0)
        /\ RollupInstant(stats[1].startDate) = <<>>
        /\ RollupInstant(stats[1].endDate) = <<>>

C6_Witness == RollupRan /\ Len(activities) = 0 /\ site = "calculateWBSRollups"

\* C7: at every call site the average progress of a non-empty set of total
\* duration > 0 is sum(progress_i * duration_i) / sum(duration_i).
C7_RollupWeighting ==
    (RollupRan /\ Len(activities) > 0 /\ TotalOfDurations > 0) =>
        stats[1].avgProgress.num * TotalOfDurations
            = SumSeq(WeightedProgresses(activities)) * stats[1].avgProgress.den

\* C8: the average progress of a non-empty set whose durations are all 0 or
\* missing is the arithmetic mean of the progress values.
C8_ZeroDurationFallback ==
    (RollupRan /\ Len(activities) > 0 /\ TotalOfDurations = 0) =>
        stats[1].avgProgress.num * Len(activities)
            = SumSeq(Progresses(activities)) * stats[1].avgProgress.den

\* C9: activities that lack a start or an end date do not influence the
\* rollup's dates, and their durations still count: the dates are those of
\* the dated activities (none when there is none) and the total duration is
\* the sum of all durations.
C9_DateRangeExclusion ==
    RollupRan =>
        /\ stats[1].totalDuration = TotalOfDurations
        /\ RollupInstant(stats[1].startDate) =
              (IF Len(DatedActivities) = 0 THEN <<>>
               ELSE <<SetMin(StartTimes(DatedActivities))>>)
        /\ RollupInstant(stats[1].endDate) =
              (IF Len(DatedActivities) = 0 THEN <<>>
               ELSE <<SetMax(EndTimes(DatedActivities))>>)

-----------------------------------------------------------------------------
(* Properties of the hierarchy builders, under SpecBuild.                  *)

CurrentCtx == Ctx(activities, wbsStructure, projectInfo, projectSummary, expanded)

\* The ids reached from the set S by following parent links downwards
RECURSIVE Closure(_,_,_)
Closure(wbs, S, n) ==
    IF n = 0 THEN S
    ELSE Closure(wbs,
                 S \cup {wbs[i].wbs_id : i \in {k \in 1..Len(wbs) : wbs[k].parent_wbs_id \in S}},
                 n - 1)

ChildIds(wbs, w) == {wbs[i].wbs_id : i \in {k \in 1..Len(wbs) : wbs[k].parent_wbs_id = w}}

\* The WBS ids strictly below w, and the subtree of w
DescendantIds(wbs, w) == Closure(wbs, ChildIds(wbs, w), Len(wbs))

SubtreeIds(wbs, w) == {w} \cup DescendantIds(wbs, w)

HasCycle(wbs) == \E i \in 1..Len(wbs) : wbs[i].wbs_id \in DescendantIds(wbs, wbs[i].wbs_id)

\* The root-level test of the view on screen
IsRootOfView(w) ==
    CASE view = "ActivitiesPage" -> projectInfo # <<>> /\ IsRootAP(CurrentCtx, w)
      [] view = "EnhancedActivitiesPage" -> IsRootEnhanced(w)
      [] view = "GanttChart" -> IsRootGantt(w)
      [] OTHER -> FALSE

\* A WBS list that is a forest for the view: no cycle, and the nodes the view
\* takes as roots have no parent in the list.
IsForest ==
    /\ ~HasCycle(wbsStructure)
    /\ \A i \in 1..Len(wbsStructure) :
          IsRootOfView(wbsStructure[i]) =>
              wbsStructure[i].parent_wbs_id \notin WbsIdsOf(wbsStructure)

\* The rows above row i on its root-to-leaf path of the flattened output
AncestorsAt(nodes, i) ==
    {j \in 1..(i - 1) :
        /\ nodes[j].level < nodes[i].level
        /\ \A k \in (j + 1)..(i - 1) : nodes[k].level > nodes[j].level}

\* C1: for a WBS list whose parent links contain a cycle, building the
\* hierarchy terminates and no WBS node is twice on a root-to-leaf path.
C1_CycleSafety ==
    (mode = "build" /\ HasCycle(wbsStructure)) =>
        /\ hierarchy.ok
        /\ \A i \in 1..Len(hierarchy.nodes) :
              \A j \in AncestorsAt(hierarchy.nodes, i) :
                  (hierarchy.nodes[i].type = "wbs" /\ hierarchy.nodes[j].type = "wbs")
                      => hierarchy.nodes[i].wbs_id # hierarchy.nodes[j].wbs_id

\* The rows of the output that belong to the subtree of the WBS id w, w's own row excepted
DescendantRows(nodes, w) ==
    {j \in 1..Len(nodes) :
        \/ nodes[j].type = "wbs" /\ nodes[j].wbs_id \in DescendantIds(wbsStructure, w) \ {w}
        \/ nodes[j].type = "activity" /\ nodes[j].wbs_id \in SubtreeIds(wbsStructure, w)}

\* The children count the row of WBS id w shows once w is expanded
CountWhenExpanded(w) ==
    LET opened == Build(view, Ctx(activities, wbsStructure, projectInfo, projectSummary,
                                  expanded \cup {w}))
    IN {opened.nodes[j].count :
           j \in {k \in 1..Len(opened.nodes) :
                     opened.nodes[k].type = "wbs" /\ opened.nodes[k].wbs_id = w}}

\* C2: a WBS node of the output whose id is not in the expanded set has no
\* descendant in the output, neither a WBS node nor an activity of its
\* subtree, and shows the children count it shows when expanded.
C2_ExpansionGating ==
    (mode = "build" /\ IsForest /\ hierarchy.ok) =>
        \A i \in 1..Len(hierarchy.nodes) :
            (/\ hierarchy.nodes[i].type = "wbs"
             /\ hierarchy.nodes[i].wbs_id \in WbsIdsOf(wbsStructure)
             /\ hierarchy.nodes[i].wbs_id \notin expanded) =>
                /\ DescendantRows(hierarchy.nodes, hierarchy.nodes[i].wbs_id) = {}
                /\ CountWhenExpanded(hierarchy.nodes[i].wbs_id) = {hierarchy.nodes[i].count}

\* The activities whose wbs_id names no node of the WBS list
OrphanActivities ==
    {i \in 1..Len(activities) : activities[i].wbs_id \notin WbsIdsOf(wbsStructure)}

RowsOfActivity(nodes, a) ==
    {j \in 1..Len(nodes) : nodes[j].type = "activity" /\ nodes[j].task_id = a.task_id}

\* C3: with the project root and the unassigned node both expanded, every
\* activity whose wbs_id names no WBS node is in the output exactly once,
\* directly under the unassigned node.
C3_UnassignedCompleteness ==
    (/\ mode = "build" /\ hierarchy.ok
     /\ ProjectRoot \in expanded /\ UnassignedKey \in expanded) =>
        \A i \in OrphanActivities :
            LET rows == RowsOfActivity(hierarchy.nodes, activities[i])
            IN /\ Cardinality(rows) = 1
               /\ \A j \in rows :
                     /\ AncestorsAt(hierarchy.nodes, j) # {}
                     /\ hierarchy.nodes[SetMax(AncestorsAt(hierarchy.nodes, j))].wbs_id
                            = UnassignedKey

\* The rollup calculator of the view on screen
ViewRollup(acts) ==
    CASE view = "ActivitiesPage" -> calculateWBSStats(acts)
      [] view = "EnhancedActivitiesPage" -> calculateWBSRollups(acts)
      [] OTHER -> ganttWBSSummary(acts)

SubtreeActivities(w) ==
    SelectSeq(activities, LAMBDA a : a.wbs_id \in SubtreeIds(wbsStructure, w))

\* C10: the figures on a WBS row (duration, progress, float, start, end) are
\* the view's rollup of all activities of the node's subtree.
C10_RollupScope ==
    (mode = "build" /\ IsForest /\ hierarchy.ok) =>
        \A i \in 1..Len(hierarchy.nodes) :
            (/\ hierarchy.nodes[i].type = "wbs"
             /\ hierarchy.nodes[i].wbs_id \in WbsIdsOf(wbsStructure)) =>
                LET r == ViewRollup(SubtreeActivities(hierarchy.nodes[i].wbs_id))
                IN /\ hierarchy.nodes[i].duration = <<r.totalDuration>>
                   /\ hierarchy.nodes[i].progress = <<r.progress_pct>>
                   /\ hierarchy.nodes[i].float = <<r.minFloat>>
                   /\ hierarchy.nodes[i].start = r.startDate
                   /\ hierarchy.nodes[i].end = r.endDate

-----------------------------------------------------------------------------
(* Properties of the views' activity fetches, under SpecView.              *)

\* The state a response is applied to
ViewState == <<activities, wbsStructure, expanded, error, loading>>

\* The requests answered by the step
Answered == inflight \ inflight'

\* C4: within one view instance, a response or failure that changes the view
\* state (activities, WBS list, expanded set, error, loading) belongs to a
\* request issued after the one whose response the state already holds: the
\* response of an earlier request never changes it.
C4_StaleResponsesIgnored ==
    [][(/\ Answered # {}
        /\ view # "none" /\ view' = view /\ inst' = inst
        /\ ViewState' # ViewState)
          => \E r \in Answered : r.inst = inst /\ r.seq > applied]_vars

C4_Witness ==
    /\ mode = "view" /\ view = "EnhancedActivitiesPage"
    /\ issued >= 2 /\ applied = issued /\ inflight = {}

\* C5: no view instance has two activity requests in flight.
C5_SingleInFlightFetch ==
    mode = "view" =>
        \A r1 \in inflight : \A r2 \in inflight : r1.inst = r2.inst => r1 = r2

C5_Witness ==
    /\ mode = "view"
    /\ \E r \in inflight : OwnedByMounted(r) /\ r.seq >= 2 /\ r.search # ""

-----------------------------------------------------------------------------
(* Further properties of the rollup calculators, under SpecRollup.         *)

\* The call sites whose result is shown as the float of a WBS node
FloatSites == {"calculateWBSStats", "calculateWBSRollups", "ganttWBSSummary"}

\* C11: the float of a WBS node over a non-empty activity set is the least
\* total float of the set, a missing float counting as 0.
C11_RollupMinFloat ==
    (RollupRan /\ site \in FloatSites /\ Len(activities) > 0) =>
        /\ \E i \in 1..Len(activities) :
              stats[1].minFloat = OrZero(activities[i].total_float_days)
        /\ \A i \in 1..Len(activities) :
              stats[1].minFloat <= OrZero(activities[i].total_float_days)

-----------------------------------------------------------------------------
(* Further properties of the hierarchy builders, under SpecLoaded.         *)

\* The ids of an output array, in order
IdsOf(nodes) == [i \in 1..Len(nodes) |-> nodes[i].id]

C13_ProjectRootFirst ==
    (mode = "loaded" /\ hierarchy.ok) =>
        /\ Len(hierarchy.nodes) >= 1
        /\ hierarchy.nodes[1].id = ProjectRoot
        /\ hierarchy.nodes[1].type = "project"
        /\ hierarchy.nodes[1].count = Len(wbsStructure)
        /\ ProjectRoot \notin expanded =>
              \A i \in 1..Len(hierarchy.nodes) :
                  hierarchy.nodes[i].type \notin {"wbs", "activity"}

\* The scenario of one root WBS item W1 holding the one activity T1, with the
\* project root and W1 expanded, in a view whose builder has a project root
Scenario ==
    /\ mode = "loaded"
    /\ view \in {"ActivitiesPage", "EnhancedActivitiesPage"}
    /\ Len(wbsStructure) = 1
    /\ wbsStructure[1].wbs_id = "W1" /\ wbsStructure[1].parent_wbs_id = NULL
    /\ activities = <<BuildActivity(1, "W1")>>
    /\ {ProjectRoot, "W1"} \subseteq expanded

\* C14: in the scenario the output is exactly the project root, the WBS node
\* of W1 with duration 10, progress 50, float 0 and the dates 2024-01-01 and
\* 2024-01-10, and the activity T1, in this order.
C14_EndToEndScenario ==
    Scenario =>
        /\ hierarchy.ok
        /\ Len(hierarchy.nodes) = 3
        /\ hierarchy.nodes[1].id = ProjectRoot
        /\ hierarchy.nodes[1].type = "project"
        /\ hierarchy.nodes[2].type = "wbs"
        /\ hierarchy.nodes[2].wbs_id = "W1"
        /\ hierarchy.nodes[2].duration = <<10>>
        /\ hierarchy.nodes[2].progress = <<50>>
        /\ hierarchy.nodes[2].float = <<0>>
        /\ ParseTime(hierarchy.nodes[2].start) = GetTime("2024-01-01")
        /\ ParseTime(hierarchy.nodes[2].end) = GetTime("2024-01-10")
        /\ hierarchy.nodes[3].type = "activity"
        /\ hierarchy.nodes[3].task_id = "T1"

C14_Witness ==
    /\ Scenario
    /\ view = "ActivitiesPage"
    /\ hierarchy.ok
    /\ hierarchy.nodes[Len(hierarchy.nodes)].type = "activity"

\* C18: a toggle of a node id flips the membership of that id in the
\* expanded set and of no other id, and a second toggle of the same id gives
\* back the set the first one started from.
C18_ToggleStateMachine ==
    [][\A nodeId \in NodeIds :
          (mode = "loaded" /\ ToggleNode(nodeId)) =>
              /\ nodeId \in expanded' <=> nodeId \notin expanded
              /\ expanded' \ {nodeId} = expanded \ {nodeId}
              /\ toggled(expanded', nodeId) = expanded]_vars

C18_Witness ==
    /\ mode = "loaded"
    /\ ProjectRoot \notin expanded
    /\ "W1" \in expanded
    /\ "W2" \in WbsIdsOf(wbsStructure) /\ "W2" \notin expanded

-----------------------------------------------------------------------------
(* SpecBar: the Gantt bar layout.  Instants are in hours since the epoch,  *)
(* so that dates carrying a time of day are told apart; a ratio is the     *)
(* record [num, den] with den > 0.  The early finish of an activity is not *)
(* before its early start and the actual finish not before the actual      *)
(* start, so a timeline spans at least twice the padding.  site and stats  *)
(* hold the call made last and its arguments and result.                   *)

MaxBarActs == 2

HoursPerDay == 24

padDays == 30

\* new Date(s).getTime(), in hours; a string without a time of day is the
\* midnight of its date.
GetTimeHours(s) ==
    CASE s = "2024-01-01T08:00:00" -> HoursPerDay * GetTime("2024-01-01") + 8
      [] s = "2024-01-01T12:00:00" -> HoursPerDay * GetTime("2024-01-01") + 12
      [] s = "2024-01-10T17:00:00" -> HoursPerDay * GetTime("2024-01-10") + 17
      [] OTHER -> HoursPerDay * GetTime(s)

\* Math.ceil(hours / (24 hours))
CeilDays(hours) == 0 - ((0 - hours) \div HoursPerDay)

\* GanttChart.projectTimeline: <<>> for null
projectTimeline(acts) ==
    IF NoProjectTimeline(acts) THEN <<>>
    ELSE LET validActivities == SelectSeq(acts, HasBothDates)
             projectStart == SetMin({GetTimeHours(validActivities[i].early_start_date) :
                                        i \in 1..Len(validActivities)})
             projectEnd == SetMax({GetTimeHours(validActivities[i].early_end_date) :
                                      i \in 1..Len(validActivities)})
             timelineStart == projectStart - padDays * HoursPerDay
             timelineEnd == projectEnd + padDays * HoursPerDay
         IN <<[start |-> timelineStart, end |-> timelineEnd,
               projectStart |-> projectStart, projectEnd |-> projectEnd,
               totalDays |-> CeilDays(timelineEnd - timelineStart)]>>

\* A date field of a GanttNode: <<>> for null, else the Date's instant
DateOrNull(s) == IF Falsy(s) THEN <<>> ELSE <<GetTimeHours(s)>>

\* GanttChart.buildWBSNodes: the dates of an activity node
ActivityBarNode(a) ==
    [id |-> "activity-" \o a.task_id, type |-> "activity",
     planned_start |-> DateOrNull(a.early_start_date),
     planned_end |-> DateOrNull(a.early_end_date),
     actual_start |-> DateOrNull(a.actual_start_date),
     actual_end |-> DateOrNull(a.actual_end_date)]

\* GanttChart.buildWBSNodes: the dates of the node of a WBS item holding acts
WbsBarNode(acts) ==
    LET validActivities == SelectSeq(acts, HasBothDates)
        dated == Len(acts) > 0 /\ Len(validActivities) > 0
    IN [id |-> "wbs-W1", type |-> "wbs",
        planned_start |-> IF dated
            THEN <<SetMin({GetTimeHours(validActivities[i].early_start_date) :
                              i \in 1..Len(validActivities)})>>
            ELSE <<>>,
        planned_end |-> IF dated
            THEN <<SetMax({GetTimeHours(validActivities[i].early_end_date) :
                              i \in 1..Len(validActivities)})>>
            ELSE <<>>,
        actual_start |-> <<>>,
        actual_end |-> <<>>]

\* The rows of the chart
BarNodes(acts) == {WbsBarNode(acts)} \cup {ActivityBarNode(acts[i]) : i \in 1..Len(acts)}

BarTypes == {"planned", "actual"}

NotRendered == [display |-> "none"]

MinWidthPercent == [num |-> 1, den |-> 2]

\* Math.max of two ratios
RatioMax(a, b) == IF a.num * b.den >= b.num * a.den THEN a ELSE b

\* The style of a bar from startDate to endDate whose width is at least least
PositionedStyle(timeline, startDate, endDate, least) ==
    LET totalDays == timeline.totalDays
        startOffset == [num |-> startDate - timeline.start, den |-> HoursPerDay]
        duration == [num |-> endDate - startDate, den |-> HoursPerDay]
        leftPercent == [num |-> startOffset.num * 100, den |-> startOffset.den * totalDays]
        widthPercent == RatioMax([num |-> duration.num * 100, den |-> duration.den * totalDays],
                                 least)
    IN [left |-> leftPercent, width |-> widthPercent]

\* calculateBarStyle with Math.max(width, 0.5) left out
calculateBarStyleUnclamped(timeline, node, barType) ==
    LET startDate == IF barType = "planned" THEN node.planned_start ELSE node.actual_start
        endDate == IF barType = "planned" THEN node.planned_end ELSE node.actual_end
    IN IF timeline = <<>> \/ startDate = <<>> \/ endDate = <<>> THEN NotRendered
       ELSE LET style == PositionedStyle(timeline[1], startDate[1], endDate[1], MinWidthPercent)
            IN [style EXCEPT !.width = [num |-> (endDate[1] - startDate[1]) * 100,
                                        den |-> HoursPerDay * timeline[1].totalDays]]

\* calculateBarStyle with a missing end date taken to be the start date
calculateBarStyleOpenEnded(timeline, node, barType) ==
    LET startDate == IF barType = "planned" THEN node.planned_start ELSE node.actual_start
        endDate == IF barType = "planned" THEN node.planned_end ELSE node.actual_end
    IN IF timeline = <<>> \/ startDate = <<>> THEN NotRendered
       ELSE PositionedStyle(timeline[1], startDate[1],
                            IF endDate = <<>> THEN startDate[1] ELSE endDate[1],
                            MinWidthPercent)

\* GanttChart.calculateBarStyle
calculateBarStyle(timeline, node, barType) ==
    IF timeline = <<>> THEN NotRendered
    ELSE LET startDate == IF barType = "planned" THEN node.planned_start ELSE node.actual_start
             endDate == IF barType = "planned" THEN node.planned_end ELSE node.actual_end
         IN IF startDate = <<>> \/ endDate = <<>> THEN NotRendered
            ELSE PositionedStyle(timeline[1], startDate[1], endDate[1], MinWidthPercent)

\* The condition under which the today line is rendered
todayLineRendered(timeline, today) ==
    /\ timeline # <<>>
    /\ LET todayOffset == [num |-> today - timeline[1].start, den |-> HoursPerDay]
           todayPercent == [num |-> todayOffset.num * 100,
                            den |-> todayOffset.den * timeline[1].totalDays]
       IN todayPercent.num >= 0 /\ todayPercent.num <= 100 * todayPercent.den

\* The early dates and the actual dates of an activity
BarChoices ==
    {<<<<"2024-01-01", "2024-01-01">>, <<NULL, NULL>>>>,
     <<<<"2024-01-01T08:00:00", "2024-01-01T12:00:00">>, <<"2024-01-01", "2024-01-05">>>>,
     <<<<"2024-01-01", "2024-01-10">>, <<"2024-01-05", NULL>>>>,
     <<<<"2024-01-01T08:00:00", "2024-01-10T17:00:00">>, <<"2024-01-05", "2024-01-05">>>>,
     <<<<"2024-01-05", "2024-01-10">>, <<NULL, "2024-01-05">>>>,
     <<<<NULL, "2024-01-10">>, <<"2024-01-01", "2024-01-05">>>>,
     <<<<"2024-01-01", NULL>>, <<NULL, NULL>>>>,
     <<<<NULL, NULL>>, <<"2024-01-05", "2024-01-05">>>>}

BarActivity(i, planned, actual) ==
    [task_id |-> ActIdPool[i], wbs_id |-> "W1",
     early_start_date |-> planned[1], early_end_date |-> planned[2],
     actual_start_date |-> actual[1], actual_end_date |-> actual[2]]

\* What the clock may read: the hours about the two ends of the timeline
TodayOffsets == {0 - 1, 0, 1, 7, 8}

Todays(timeline) ==
    IF timeline = <<>> THEN {HoursPerDay * GetTime("2024-01-05")}
    ELSE {timeline[1].start + k : k \in TodayOffsets}
         \cup {timeline[1].end + k : k \in TodayOffsets}

InitBar ==
    /\ mode = "bar"
    /\ NoApp /\ NoRequests /\ NoRollup
    /\ \E n \in 0..MaxBarActs :
          \E f \in [1..n -> BarChoices] :
              activities = [i \in 1..n |-> BarActivity(i, f[i][1], f[i][2])]
    /\ view = "none"
    /\ loading = FALSE
    /\ error = NULL
    /\ searchTerm = ""
    /\ statusFilter = "all"
    /\ timer = <<>>
    /\ wbsStructure = <<>>
    /\ projectInfo = <<>>
    /\ projectSummary = <<>>
    /\ expanded = {}
    /\ hierarchy = Built(<<>>)
    /\ issued = 0
    /\ applied = 0

\* A bar of a row is laid out
RunCalculateBarStyle(node, barType) ==
    /\ mode = "bar"
    /\ site' = "calculateBarStyle"
    /\ stats' = <<[node |-> node, barType |-> barType,
                   style |-> calculateBarStyle(projectTimeline(activities), node, barType)]>>
    /\ UNCHANGED <<mode, appVars, view, fetchVars, dataVars, treeVars>>

\* The chart is rendered while the clock reads today
RenderTodayLine(today) ==
    /\ mode = "bar"
    /\ site' = "todayLine"
    /\ stats' = <<[today |-> today,
                   rendered |-> todayLineRendered(projectTimeline(activities), today)]>>
    /\ UNCHANGED <<mode, appVars, view, fetchVars, dataVars, treeVars>>

NextBar ==
    \/ \E node \in BarNodes(activities), barType \in BarTypes :
          RunCalculateBarStyle(node, barType)
    \/ \E today \in Todays(projectTimeline(activities)) : RenderTodayLine(today)

SpecBar == InitBar /\ [][NextBar]_vars

-----------------------------------------------------------------------------
(* Properties of the bar layout, under SpecBar.                            *)

BarLaidOut == mode = "bar" /\ site = "calculateBarStyle"

\* The start and the end of the bar type asked for
RequestedStart ==
    IF stats[1].barType = "planned" THEN stats[1].node.planned_start
    ELSE stats[1].node.actual_start

RequestedEnd ==
    IF stats[1].barType = "planned" THEN stats[1].node.planned_end
    ELSE stats[1].node.actual_end

\* C15: a bar that is positioned is at least 0.5 percent of the timeline
\* wide, and exactly 0.5 percent wide when its start and end are the same
\* instant.
C15_BarWidthClamp ==
    (BarLaidOut /\ stats[1].style # NotRendered) =>
        LET width == stats[1].style.width
        IN /\ width.den > 0
           /\ width.num * MinWidthPercent.den >= MinWidthPercent.num * width.den
           /\ RequestedStart = RequestedEnd => width = MinWidthPercent

C15_Witness ==
    /\ BarLaidOut
    /\ stats[1].style # NotRendered
    /\ RequestedStart = RequestedEnd
    /\ stats[1].style.width = MinWidthPercent

TodayLineRan == mode = "bar" /\ site = "todayLine"

\* C16: the today line is rendered exactly when a timeline exists and the
\* clock reads an instant from the timeline's start to its end.
C16_TodayMarkerBounds ==
    TodayLineRan =>
        (stats[1].rendered <=>
            /\ projectTimeline(activities) # <<>>
            /\ projectTimeline(activities)[1].start <= stats[1].today
            /\ stats[1].today <= projectTimeline(activities)[1].end)

\* C17: a bar is not rendered, and has neither left nor width, when there is
\* no timeline or when the start or the end of the bar type asked for is null.
C17_UnpositionedNodes ==
    (/\ BarLaidOut
     /\ \/ projectTimeline(activities) = <<>>
        \/ RequestedStart = <<>>
        \/ RequestedEnd = <<>>) =>
        /\ stats[1].style = NotRendered
        /\ DOMAIN stats[1].style = {"display"}

C17_Witness ==
    /\ BarLaidOut
    /\ projectTimeline(activities) # <<>>
    /\ stats[1].barType = "actual"
    /\ RequestedStart # <<>>
    /\ RequestedEnd = <<>>
    /\ stats[1].style.display = "none"

-----------------------------------------------------------------------------
(* Further properties of the views, under SpecView.                        *)

\* The answer to the first request of the mounted view is applied
InitialLoadApplied ==
    \E r \in inflight, payload \in ViewPayloads :
        r.seq = 1 /\ OwnedByMounted(r) /\ ActivityLoaded(r, payload)

\* C19: the initial load leaves expanded exactly the project root and the
\* first ids, 3 to 5 of them at most, of the root-level items of the WBS list
\* returned, the empty list included.
C19_InitialExpansion ==
    [][InitialLoadApplied =>
          \E n \in 3..5 :
              expanded' = {ProjectRoot} \cup
                  WbsIdsOf(Prefix(SelectSeq(wbsStructure', IsRootOfView), n))]_vars

\* The requests of the mounted view that are not answered yet
OwnInflight == {r \in inflight : OwnedByMounted(r)}

\* A request of the mounted view fails
FetchFailed ==
    \E r \in inflight, failure \in Failures :
        OwnedByMounted(r) /\ ActivityFailed(r, failure)

\* The mounted view shows its error panel
ErrorShown == mode = "view" /\ view # "none" /\ error # NULL

\* C20: a failed activity fetch leaves the view with an error message and
\* loading false and keeps the activities and the WBS list it held; a view
\* showing an error has no request and no timer pending and issues none, and
\* its state changes only by a back action (the panel's button or the
\* breadcrumb of App), which unmounts it.
C20_ReportAndHalt ==
    [][/\ FetchFailed =>
             /\ error' # NULL
             /\ loading' = FALSE
             /\ activities' = activities
             /\ wbsStructure' = wbsStructure
       /\ ErrorShown =>
             /\ loading = FALSE
             /\ timer = <<>>
             /\ OwnInflight = {}
             /\ \/ view' = "none" /\ currentView' \in {"schedules", "projects"}
                \/ /\ UNCHANGED <<view, inst, error, loading, timer, issued, applied,
                                   searchTerm, statusFilter, dataVars, treeVars>>
                   /\ inflight' \subseteq inflight]_vars

C20_Witness ==
    /\ ErrorShown
    /\ ~loading
    /\ inflight = {}
    /\ applied >= 2
    /\ Len(activities) > 0

\* C30: in the views 'activities' and 'gantt' a project and a schedule are
\* selected, in 'schedules' a project and no schedule, in 'projects' neither.
C30_NavigationInvariant ==
    mode = "view" =>
        /\ currentView \in {"activities", "gantt"} =>
              selectedProject # 0 /\ selectedSchedule # 0
        /\ currentView = "schedules" => selectedProject # 0 /\ selectedSchedule = 0
        /\ currentView = "projects" => selectedProject = 0 /\ selectedSchedule = 0

C30_Witness ==
    /\ mode = "view"
    /\ currentView = "schedules"
    /\ selectedProject # 0
    /\ inst >= 1

\* A parameter of the activity fetch changes in the mounted view
ParameterChanged ==
    /\ view = "EnhancedActivitiesPage" /\ view' = view /\ inst' = inst
    /\ searchTerm' # searchTerm \/ statusFilter' # statusFilter

\* The mounted view starts fetches
FetchStarted ==
    /\ view = "EnhancedActivitiesPage" /\ view' = view /\ inst' = inst
    /\ inflight' # inflight /\ inflight \subseteq inflight'

\* C23: a change of the search term or the status filter starts no fetch and
\* leaves exactly the timer of the last change pending, due in 300 ms; a
\* fetch starts only when that timer is due, is a single fetch and carries
\* the last values.
C23_Debounce ==
    [][/\ mode = "view" /\ ParameterChanged =>
             /\ inflight' = inflight
             /\ timer' = <<[search |-> searchTerm', status |-> statusFilter', due |-> 300]>>
       /\ mode = "view" /\ FetchStarted =>
             /\ timer # <<>> /\ timer' = <<>>
             /\ timer[1] = [search |-> searchTerm, status |-> statusFilter, due |-> 0]
             /\ \E r \in inflight' :
                   /\ inflight' = inflight \cup {r}
                   /\ r.search = searchTerm /\ r.status = statusFilter]_vars

C23_Witness ==
    /\ mode = "view"
    /\ view = "EnhancedActivitiesPage"
    /\ issued = 2
    /\ \E r \in OwnInflight : r.seq = 2 /\ r.search # "" /\ r.status # "all"

\* C22: a 2xx response to the activities request whose success flag is false
\* or absent is a failure: the mounted view shows an error, the server's
\* message when the body carries one, it stops loading, and its activities,
\* WBS list and expanded set keep the values they had.
C22_ResponseEnvelope ==
    [][\A r \in OwnInflight, failure \in Envelopes :
          ActivityFailed(r, failure) =>
              /\ ~Falsy(error')
              /\ ~Falsy(ServerError(failure)) => error' = ServerError(failure)
              /\ loading' = FALSE
              /\ activities' = activities
              /\ wbsStructure' = wbsStructure
              /\ expanded' = expanded]_vars

\* A view that had loaded its activities shows the server's message, data kept
C22_Witness ==
    /\ mode = "view"
    /\ view # "none"
    /\ error = "Schedule not found"
    /\ ~loading
    /\ Len(activities) > 0
    /\ Len(wbsStructure) > 0
    /\ expanded # {}

\* C26: for a WBS list whose parent links have no cycle, and any expanded
\* set, the ids of the output nodes are pairwise distinct: each WBS node and
\* each activity appears at most once, also when an item that passes the
\* root-level test has a parent in the list.
C26_UniqueNodes ==
    (mode = "build" /\ ~HasCycle(wbsStructure) /\ hierarchy.ok) =>
        \A i, j \in 1..Len(hierarchy.nodes) :
            hierarchy.nodes[i].id = hierarchy.nodes[j].id => i = j

-----------------------------------------------------------------------------
(* Properties of the activity order, under SpecOrder.                      *)

\* The activity rows of the output, in output order
ShownActivities == SelectSeq(hierarchy.nodes, LAMBDA n : n.type = "activity")

\* The start instant of the activity of a row, 0 for one without a start date
StartKey(n) ==
    LET a == CHOOSE x \in {activities[k] : k \in 1..Len(activities)} : x.task_id = n.task_id
    IN IF Falsy(a.early_start_date) THEN 0 ELSE GetTime(a.early_start_date)

\* C24: the direct activities of an expanded WBS node appear by start date
\* ascending, those without a start date first, and those with equal start
\* dates by activity identifier; the order is then the same for every order
\* of the input list.
C24_ActivityOrder ==
    (mode = "order" /\ hierarchy.ok) =>
        \A i \in 1..(Len(ShownActivities) - 1) :
            LET a == ShownActivities[i]
                b == ShownActivities[i + 1]
            IN \/ StartKey(a) < StartKey(b)
               \/ StartKey(a) = StartKey(b) /\ LocaleCompare(a.task_id, b.task_id) <= 0

\* The values setExpandedWBS / setExpandedNodes can be given by one click
ClickResults ==
    {toggled(expanded, nodeId) : nodeId \in NodeIds}
        \cup {{ProjectRoot} \cup WbsIdsOf(wbsStructure)
                  \cup (IF view = "ActivitiesPage" THEN {UnassignedKey} ELSE {}),
              IF view = "ActivitiesPage" THEN {} ELSE {ProjectRoot}}

-----------------------------------------------------------------------------
(* Properties of the forms of App, under SpecApp.                          *)

\* The requests a step sends
Sent == {c \in calls' : c.id \notin {d.id : d \in calls}}

\* The alerts of the guard clauses of createProject, createSchedule,
\* uploadXerFile and handleFileSelect
ValidationAlerts ==
    {"Project name is required!", "Schedule name is required!",
     "Please select a file and enter a schedule name",
     "Please select a .xer file", "File size must be less than 100MB"}

\* C21: createProject with a blank name, createSchedule with a blank name or
\* no selected project, uploadXerFile with no file, no project or a blank
\* schedule name send no request, and handleFileSelect takes no file that
\* does not end in .xer or is larger than 100 MB; a step that raises one of
\* the validation alerts sends nothing and leaves the selected file, the
\* form fields and the rest of the App state as they were.
C21_ValidationSendsNothing ==
    [][mode = "app" =>
          /\ \A c \in Sent :
                /\ c.kind = "createProject" => Trim(newProject) # ""
                /\ c.kind = "createSchedule" => Trim(newSchedule) # "" /\ selectedProject # 0
                /\ c.kind = "upload" =>
                      /\ selectedFile # <<>>
                      /\ selectedProject # 0
                      /\ Trim(uploadScheduleName) # ""
          /\ (selectedFile' # selectedFile /\ selectedFile' # <<>>) =>
                /\ selectedFile'[1].name \in {"PLAN.XER", "big.xer"}
                /\ selectedFile'[1].size <= 104857600
          /\ lastAlert' \in ValidationAlerts =>
                /\ Sent = {}
                /\ formVars' = formVars
                /\ navVars' = navVars]_vars

\* uploadXerFile was called with a file chosen and a blank schedule name: it
\* raised its alert, nothing was sent
C21_Witness ==
    /\ mode = "app"
    /\ lastAlert = "Please select a file and enter a schedule name"
    /\ selectedProject # 0
    /\ selectedFile # <<>>
    /\ uploadScheduleName = " "
    /\ calls = {}
    /\ nextCall = 1
    /\ ~uploading

\* C27: once no fetchSchedules response and no other response is outstanding,
\* the schedules list is the one of the selected project (or still empty when
\* its fetch failed), and it is empty when no project is selected.
C27_ScheduleListConsistency ==
    (mode = "app" /\ SchedFetchesInFlight = 0 /\ calls = {}) =>
        IF selectedProject = 0 THEN schedules = {}
        ELSE schedules \in {{}, ScheduleList(selectedProject)}

\* An upload is between its request and the end of uploadXerFile
UploadRunning == \E c \in calls : c.kind = "upload"

\* C28: when no upload is running, the last one having finished by success,
\* by a non-2xx response or by a thrown network error, uploading is false,
\* uploadProgress is 0 and no progress interval is left running.
C28_UploadSettles ==
    (mode = "app" /\ ~UploadRunning) =>
        /\ ~uploading
        /\ uploadProgress = 0
        /\ intervals = {}

-----------------------------------------------------------------------------
(* Properties of the views, under SpecViewFair.                            *)

InFlight(id) == \E r \in inflight : r.id = id

\* C29: the mounted view has loading false only with none of its requests in
\* flight; every request is answered in the end, and the answer to a request
\* of the mounted view, success or failure, leaves loading false.
C29_LoadingMatchesRequests ==
    /\ []((mode = "view" /\ view # "none" /\ ~loading) => OwnInflight = {})
    /\ [][\A r \in Answered : (r.inst = inst /\ view # "none") => ~loading']_vars
    /\ \A id \in 1..MaxRequests : InFlight(id) ~> ~InFlight(id)

C29_Witness ==
    /\ mode = "view"
    /\ view # "none"
    /\ ~loading
    /\ error # NULL
    /\ applied = issued /\ issued >= 1
    /\ \E r \in inflight : r.inst # inst

====
